---------------------------- MODULE Spec2Model ----------------------------
(***************************************************************************)
(* Model of the numeric core of InoforLibs: Ino::Vector, Ino::Matrix and   *)
(* the banded LDLT solver Matrix::solveLDLT (src/Matrix/src/Matrix.cpp,    *)
(* src/inc/1.0/Matrix.h).                                                  *)
(*                                                                         *)
(* Indices are the source's (0-based): a buffer of n doubles is a function *)
(* with domain 0..n-1.                                                     *)
(*                                                                         *)
(* A double is modelled by an exact rational <<n, d>> (d > 0, lowest       *)
(* terms) or by NonFinite, which stands for an IEEE infinity or NaN.       *)
(* Rounding is not modelled: the arithmetic is the exact arithmetic the    *)
(* solver approximates.                                                    *)
(***************************************************************************)
EXTENDS Integers, Sequences, FiniteSets, TLC

VARIABLES
  vecs,     \* Vector objects: slot -> [live, va, sz, cap]
  vlast,    \* the last Vector operation: its arguments, the target's sz and
            \* cap before it, the exception it raised
  mats,     \* Matrix objects: slot -> [live, broken, rws, cls, el]
  mlast,    \* the last Matrix operation and the exception it raised
  A,        \* the solver's coefficient matrix (*this of solveLDLT)
  rhs,      \* the solver's right-hand side: a Vector or a Matrix
  A0,       \* A and rhs as they were before the last solveLDLT call
  rhs0,
  outcome,  \* how the last solveLDLT call ended
  heap,     \* the free store: address -> [used, data]
  objs,     \* Vector and Matrix objects holding a pointer into heap
  hlast,    \* the last operation on objs and the exception it raised
  ops,      \* the matrices of a transpose or multiply call: this, b, the output
  ops0,     \* ops as it was before the call
  plast,    \* the call made and the exception it raised
  scratch,  \* the solver's scratch buffers still allocated: [call, buf, store]
  calls,    \* the number of solveLDLT calls made
  slast,    \* the last such call: overload, rws, cls, rows of rhs, exception
  arr,      \* the Array<int> object: capIncPercent, lst, lstSz, lstCap
  alast,    \* the last Array operation and how it ended
  uf,       \* the UniFile object: fndHdl, fndMode, srchFilter
  fnd,      \* the system's find handles: those open, the entries fndHdl has yet to yield
  ulast,    \* the last call on the object: method, result, whether its argument was the object
  hist,     \* what the caller saw: the last findFirst call, its result, ended since, hits
  exeDir,   \* the path held by the UniFile passed to getExeDir
  elast,    \* the last call on it: method, result, the executable's path, the path before
  fs,       \* a solveLDLT call in progress: overload, matrix, lwbIdx, r, rhs, position
  fg        \* what its last step did: the accesses made, the r[k] read, who wrote each r[k]

vars == <<vecs, vlast, mats, mlast, A, rhs, A0, rhs0, outcome,
          heap, objs, hlast,
          ops, ops0, plast,
          scratch, calls, slast,
          arr, alast,
          uf, fnd, ulast, hist,
          exeDir, elast,
          fs, fg>>

vecVars == <<vecs, vlast>>
matVars == <<mats, mlast>>
solveVars == <<A, rhs, A0, rhs0, outcome>>

heapVars == <<heap, objs, hlast>>

prodVars == <<ops, ops0, plast>>
scratchVars == <<scratch, calls, slast>>
arrVars == <<arr, alast>>
findVars == <<uf, fnd, ulast, hist>>
exeVars == <<exeDir, elast>>
facVars == <<fs, fg>>

\* what the operations of one component leave alone
exceptVec == <<matVars, solveVars, heapVars, prodVars, scratchVars, arrVars, findVars, exeVars, facVars>>
exceptMat == <<vecVars, solveVars, heapVars, prodVars, scratchVars, arrVars, findVars, exeVars, facVars>>
exceptSolve == <<vecVars, matVars, heapVars, prodVars, scratchVars, arrVars, findVars, exeVars, facVars>>
exceptHeap == <<vecVars, matVars, solveVars, prodVars, scratchVars, arrVars, findVars, exeVars, facVars>>
exceptProd == <<matVars, solveVars, heapVars, vecVars, scratchVars, arrVars, findVars, exeVars, facVars>>
exceptScratch == <<matVars, solveVars, heapVars, prodVars, vecVars, arrVars, findVars, exeVars, facVars>>
exceptArray == <<matVars, solveVars, heapVars, prodVars, scratchVars, vecVars, findVars, exeVars, facVars>>
exceptFind == <<matVars, solveVars, heapVars, prodVars, scratchVars, arrVars, vecVars, exeVars, facVars>>
exceptExe == <<matVars, solveVars, heapVars, prodVars, scratchVars, arrVars, findVars, vecVars, facVars>>
exceptFac == <<matVars, solveVars, heapVars, prodVars, scratchVars, arrVars, findVars, exeVars, vecVars>>

(***************************************************************************)
(* Bounds of the model.                                                    *)
(***************************************************************************)
MaxSize == 2          \* largest Vector size requested

VecVals == {0, 1}     \* what a Vector entry may hold (written or left over)
VecSlots == {1, 2}      \* the Vector objects
Bool == {TRUE, FALSE}

Min(a, b) == IF a < b THEN a ELSE b
Max(a, b) == IF a > b THEN a ELSE b

(***************************************************************************)
(* Ino::Vector: double *va; int sz; int cap.                               *)
(*   va is the allocated buffer (cap doubles), sz the logical size.        *)
(***************************************************************************)
NoVector == [live |-> FALSE, va |-> <<>>, sz |-> 0, cap |-> 0]

\* memset(buf+from, 0, (to-from)*sizeof(double))
ZeroRange(buf, from, to) ==
  [i \in DOMAIN buf |-> IF i >= from /\ i < to THEN 0 ELSE buf[i]]

\* memmove(dst, src, n*sizeof(double))
CopyPrefix(dst, src, n) ==
  [i \in DOMAIN dst |-> IF i < n THEN src[i] ELSE dst[i]]

\* the hysteresis window of setSize: newSz >= cap/2 && newSz <= cap
\* (cap/2 is C++ int division; cap >= 0, so it rounds down)
\* faulty variants: cap/2 rounded up; no upper end
InWindowHalfUp(v, newSz) == newSz >= (v.cap + 1) \div 2 /\ newSz <= v.cap

InWindowNoUpper(v, newSz) == newSz >= v.cap \div 2

InWindow(v, newSz) == newSz >= v.cap \div 2 /\ newSz <= v.cap

\* the in-window branch of setSize: only the logical size changes
\* faulty variant: the grown range is not zeroed
SetSizeInPlaceNoZero(v, newSz, zeroInit) == [v EXCEPT !.sz = newSz]

SetSizeInPlace(v, newSz, zeroInit) ==
  [v EXCEPT !.va = IF zeroInit /\ newSz > v.sz
                     THEN ZeroRange(v.va, v.sz, newSz) ELSE v.va,
            !.sz = newSz]

\* the reallocating branches of setSize; fresh is the content of the
\* newly allocated buffer (new double[newSz], uninitialised)
SetSizeRealloc(v, newSz, preserve, zeroInit, fresh) ==
  [live |-> TRUE,
   va |-> IF preserve
            THEN IF newSz <= v.sz
                   THEN CopyPrefix(fresh, v.va, newSz)
                   ELSE LET moved == CopyPrefix(fresh, v.va, v.sz)
                        IN  IF zeroInit THEN ZeroRange(moved, v.sz, newSz)
                                        ELSE moved
            ELSE IF zeroInit THEN ZeroRange(fresh, 0, newSz) ELSE fresh,
   sz |-> newSz,
   cap |-> newSz]

\* Vector::setSize(newSz, preserve, zeroInit): the vector after the call and
\* the exception raised
SetSize(v, newSz, preserve, zeroInit, fresh) ==
  IF newSz < 0
    THEN [v |-> v, exc |-> "IllegalArgument"]
    ELSE IF InWindow(v, newSz)
      THEN [v |-> SetSizeInPlace(v, newSz, zeroInit), exc |-> "none"]
      ELSE [v |-> SetSizeRealloc(v, newSz, preserve, zeroInit, fresh),
            exc |-> "none"]

\* the possible contents of a freshly allocated buffer of n doubles; when
\* the caller overwrites all of it (seen false) one content stands for all
Fresh(n, seen) ==
  IF seen THEN [0..(n-1) -> VecVals] ELSE {[i \in 0..(n-1) |-> 0]}

NoVecOp == [op |-> "none", tgt |-> 0, newSz |-> 0, preserve |-> FALSE,
            zeroInit |-> FALSE, exc |-> "none", preSz |-> 0, preCap |-> 0,
            val |-> 0]

VecInit ==
  /\ vecs = [s \in VecSlots |-> NoVector]
  /\ vlast = NoVecOp

\* Vector::Vector(int vSize, bool zeroInit)
VectorCtor(s, vSize, zeroInit) ==
  /\ UNCHANGED exceptVec
  /\ ~vecs[s].live
  /\ IF vSize < 0
       THEN /\ vecs' = vecs     \* throws: no object comes to exist
            /\ vlast' = [NoVecOp EXCEPT !.op = "ctor", !.tgt = s,
                           !.newSz = vSize, !.zeroInit = zeroInit,
                           !.exc = "IllegalArgument"]
       ELSE \E fresh \in Fresh(vSize, ~zeroInit) :
            /\ vecs' = [vecs EXCEPT ![s] =
                 [live |-> TRUE,
                  va |-> IF zeroInit THEN ZeroRange(fresh, 0, vSize) ELSE fresh,
                  sz |-> vSize, cap |-> vSize]]
            /\ vlast' = [NoVecOp EXCEPT !.op = "ctor", !.tgt = s,
                           !.newSz = vSize, !.zeroInit = zeroInit]

\* Vector::Vector(const Vector& cp)
VectorCopyCtor(s, src) ==
  /\ UNCHANGED exceptVec
  /\ ~vecs[s].live
  /\ vecs[src].live
  /\ \E fresh \in Fresh(vecs[src].sz, FALSE) :
       vecs' = [vecs EXCEPT ![s] =
         [live |-> TRUE,
          va |-> CopyPrefix(fresh, vecs[src].va, vecs[src].sz),
          sz |-> vecs[src].sz, cap |-> vecs[src].sz]]
  /\ vlast' = [NoVecOp EXCEPT !.op = "copy", !.tgt = s, !.newSz = src]

\* Vector::~Vector()
VectorDtor(s) ==
  /\ UNCHANGED exceptVec
  /\ vecs[s].live
  /\ vecs' = [vecs EXCEPT ![s] = NoVector]
  /\ vlast' = [NoVecOp EXCEPT !.op = "dtor", !.tgt = s]

\* Vector::operator=(const Vector& src): setSize(src.sz,false,false), then
\* memmove(va, src.va, sz)
VectorAssign(s, src) ==
  /\ UNCHANGED exceptVec
  /\ vecs[s].live
  /\ vecs[src].live
  /\ \E fresh \in Fresh(vecs[src].sz, FALSE) :
       LET r == SetSize(vecs[s], vecs[src].sz, FALSE, FALSE, fresh)
           \* src is read after setSize: with s = src it is the resized one
           from == IF s = src THEN r.v ELSE vecs[src]
       IN  vecs' = [vecs EXCEPT ![s] =
                      [r.v EXCEPT !.va = CopyPrefix(r.v.va, from.va, r.v.sz)]]
  /\ vlast' = [NoVecOp EXCEPT !.op = "assign", !.tgt = s, !.newSz = src,
                 !.preSz = vecs[s].sz, !.preCap = vecs[s].cap]

\* Vector::setSize(int newSz, bool preserve, bool zeroInit)
VectorSetSize(s, newSz, preserve, zeroInit) ==
  /\ UNCHANGED exceptVec
  /\ vecs[s].live
  /\ \E fresh \in Fresh(newSz, ~zeroInit) :
       LET r == SetSize(vecs[s], newSz, preserve, zeroInit, fresh)
       IN  /\ vecs' = [vecs EXCEPT ![s] = r.v]
           /\ vlast' = [op |-> "setSize", tgt |-> s, newSz |-> newSz,
                        preserve |-> preserve, zeroInit |-> zeroInit,
                        exc |-> r.exc, preSz |-> vecs[s].sz,
                        preCap |-> vecs[s].cap, val |-> 0]

\* double& Vector::operator[](int idx), used to store val
VectorStore(s, idx, val) ==
  /\ UNCHANGED exceptVec
  /\ vecs[s].live
  /\ IF idx < 0 \/ idx >= vecs[s].sz
       THEN /\ vecs' = vecs
            /\ vlast' = [NoVecOp EXCEPT !.op = "store", !.tgt = s,
                           !.newSz = idx, !.exc = "IndexOutOfBounds",
                           !.preSz = vecs[s].sz, !.preCap = vecs[s].cap]
       ELSE /\ vecs' = [vecs EXCEPT ![s].va[idx] = val]
            /\ vlast' = [NoVecOp EXCEPT !.op = "store", !.tgt = s,
                           !.newSz = idx, !.preSz = vecs[s].sz,
                           !.preCap = vecs[s].cap, !.val = val]

\* double Vector::operator[](int idx) const: the value returned and the
\* exception raised
\* faulty variant: the index compared with the capacity
LoadAtWithinCapacity(v, idx) ==
  IF idx < 0 \/ idx >= v.cap
    THEN [val |-> 0, exc |-> "IndexOutOfBounds"]
    ELSE [val |-> v.va[idx], exc |-> "none"]

LoadAt(v, idx) ==
  IF idx < 0 \/ idx >= v.sz
    THEN [val |-> 0, exc |-> "IndexOutOfBounds"]
    ELSE [val |-> v.va[idx], exc |-> "none"]

\* double Vector::operator[](int idx) const
VectorLoad(s, idx) ==
  /\ UNCHANGED exceptVec
  /\ vecs[s].live
  /\ UNCHANGED vecs
  /\ LET r == LoadAt(vecs[s], idx)
     IN  vlast' = [NoVecOp EXCEPT !.op = "load", !.tgt = s, !.newSz = idx,
                     !.exc = r.exc, !.preSz = vecs[s].sz,
                     !.preCap = vecs[s].cap, !.val = r.val]

VecNext ==
  \/ \E s \in VecSlots, n \in (-1)..MaxSize, z \in Bool : VectorCtor(s, n, z)
  \/ \E s \in VecSlots, src \in VecSlots : VectorCopyCtor(s, src)
  \/ \E s \in VecSlots : VectorDtor(s)
  \/ \E s \in VecSlots, src \in VecSlots : VectorAssign(s, src)
  \/ \E s \in VecSlots, n \in (-1)..MaxSize, p \in Bool, z \in Bool :
       VectorSetSize(s, n, p, z)
  \/ \E s \in VecSlots, i \in (-1)..MaxSize, x \in VecVals :
       VectorStore(s, i, x)
  \/ \E s \in VecSlots, i \in (-1)..MaxSize : VectorLoad(s, i)


(***************************************************************************)
(* Ino::Matrix: double **mat; double *matRows; int rws, cls.               *)
(*   el is the flat buffer matRows (rws*cls doubles); the row table mat    *)
(*   holds mat[i] = matRows + i*cls, so mat[i][j] is el[i*cls + j].        *)
(*   broken marks an object whose storage was freed by an alloc that then  *)
(*   threw, or that was written out of range: using it is undefined, and   *)
(*   no operation is modelled on it.                                       *)
(***************************************************************************)
MaxDim == 2           \* largest Matrix dimension requested
MaxElems == 2         \* largest matRows allocated (rows*cols doubles)

MatVals == {0, 1}     \* what a Matrix entry may hold
MatSlots == {1, 2}      \* the Matrix objects

NoMatrix == [live |-> FALSE, broken |-> FALSE, rws |-> 0, cls |-> 0, el |-> <<>>]

Usable(m) == m.live /\ ~m.broken

\* mat[i][j]
At(m, i, j) == m.el[i * m.cls + j]

\* whether mat[i][j] lies in the object: row pointer i exists and the element
\* is inside matRows
InStore(m, i, j) ==
  /\ 0 <= i /\ i < m.rws
  /\ 0 <= i * m.cls + j /\ i * m.cls + j < m.rws * m.cls

\* the possible contents of a freshly allocated matRows of n doubles
MatFresh(n, seen) ==
  IF seen THEN [0..(n-1) -> MatVals] ELSE {[i \in 0..(n-1) |-> 0]}

\* Matrix::alloc(rows, cols, setZero): rws and cls are set first, the old
\* storage is freed, then new double*[rws] and new double[rws*cls] are
\* allocated (a negative length throws, leaving the storage freed)
Alloc(m, rows, cols, setZero, fresh) ==
  IF rows < 0 \/ rows * cols < 0
    THEN [m |-> [live |-> TRUE, broken |-> TRUE, rws |-> rows, cls |-> cols,
                 el |-> <<>>],
          exc |-> "bad_alloc"]
    ELSE [m |-> [live |-> TRUE, broken |-> FALSE, rws |-> rows, cls |-> cols,
                 el |-> IF setZero THEN [i \in DOMAIN fresh |-> 0] ELSE fresh],
          exc |-> "none"]

\* the length new double[rows*cols] asks for (0 when the allocation throws)
AllocLen(rows, cols) == IF rows < 0 \/ rows * cols < 0 THEN 0 ELSE rows * cols

\* the model's bound on the size of one allocation
Fits(rows, cols) == rows * cols <= MaxElems

NoMatOp == [op |-> "none", exc |-> "none"]

MatInit ==
  /\ mats = [s \in MatSlots |-> NoMatrix]
  /\ mlast = NoMatOp

\* Matrix::Matrix(int rows, int cols, bool zeroInit): alloc with no check of
\* rows and cols; an exception leaves no object
MatrixCtor(s, rows, cols, zeroInit) ==
  /\ UNCHANGED exceptMat
  /\ ~mats[s].live
  /\ Fits(rows, cols)
  /\ \E fresh \in MatFresh(AllocLen(rows, cols), ~zeroInit) :
       LET a == Alloc(NoMatrix, rows, cols, zeroInit, fresh)
       IN  /\ mats' = IF a.exc = "none" THEN [mats EXCEPT ![s] = a.m] ELSE mats
           /\ mlast' = [op |-> "ctor", exc |-> a.exc]

\* Matrix::Matrix(const Matrix& cp): a usable cp has cp.rws >= 0 and
\* cp.rws*cp.cls >= 0, so both allocations succeed
MatrixCopyCtor(s, src) ==
  /\ UNCHANGED exceptMat
  /\ ~mats[s].live
  /\ Usable(mats[src])
  /\ mats' = [mats EXCEPT ![s] =
       [live |-> TRUE, broken |-> FALSE, rws |-> mats[src].rws,
        cls |-> mats[src].cls, el |-> mats[src].el]]
  /\ mlast' = [op |-> "copy", exc |-> "none"]

\* Matrix::~Matrix()
MatrixDtor(s) ==
  /\ UNCHANGED exceptMat
  /\ Usable(mats[s])
  /\ mats' = [mats EXCEPT ![s] = NoMatrix]
  /\ mlast' = [op |-> "dtor", exc |-> "none"]

\* Matrix::setRows(int rows, bool zeroInit)
MatrixSetRows(s, rows, zeroInit) ==
  /\ UNCHANGED exceptMat
  /\ Usable(mats[s])
  /\ Fits(rows, mats[s].cls)
  /\ IF rows < 1
       THEN /\ mats' = mats
            /\ mlast' = [op |-> "setRows", exc |-> "IllegalArgument"]
       ELSE \E fresh \in MatFresh(AllocLen(rows, mats[s].cls), ~zeroInit) :
            LET a == Alloc(mats[s], rows, mats[s].cls, zeroInit, fresh)
            IN  /\ mats' = [mats EXCEPT ![s] = a.m]
                /\ mlast' = [op |-> "setRows", exc |-> a.exc]

\* Matrix::setColumns(int cols, bool zeroInit)
MatrixSetColumns(s, cols, zeroInit) ==
  /\ UNCHANGED exceptMat
  /\ Usable(mats[s])
  /\ Fits(mats[s].rws, cols)
  /\ IF cols < 1
       THEN /\ mats' = mats
            /\ mlast' = [op |-> "setColumns", exc |-> "IllegalArgument"]
       ELSE \E fresh \in MatFresh(AllocLen(mats[s].rws, cols), ~zeroInit) :
            LET a == Alloc(mats[s], mats[s].rws, cols, zeroInit, fresh)
            IN  /\ mats' = [mats EXCEPT ![s] = a.m]
                /\ mlast' = [op |-> "setColumns", exc |-> a.exc]

\* Matrix::resize(int rows, int cols, bool zeroInit)
MatrixResize(s, rows, cols, zeroInit) ==
  /\ UNCHANGED exceptMat
  /\ Usable(mats[s])
  /\ Fits(rows, cols)
  /\ IF rows < 1 \/ cols < 1
       THEN /\ mats' = mats
            /\ mlast' = [op |-> "resize", exc |-> "IllegalArgument"]
       ELSE \E fresh \in MatFresh(AllocLen(rows, cols), ~zeroInit) :
            LET a == Alloc(mats[s], rows, cols, zeroInit, fresh)
            IN  /\ mats' = [mats EXCEPT ![s] = a.m]
                /\ mlast' = [op |-> "resize", exc |-> a.exc]

\* Matrix::operator=(const Matrix& src): alloc(src.rws, src.cls, false) when
\* the shapes differ, then memmove of rws*cls doubles from src.matRows
MatrixAssign(s, src) ==
  /\ UNCHANGED exceptMat
  /\ Usable(mats[s])
  /\ Usable(mats[src])
  /\ mats' = [mats EXCEPT ![s] =
       [live |-> TRUE, broken |-> FALSE, rws |-> mats[src].rws,
        cls |-> mats[src].cls, el |-> mats[src].el]]
  /\ mlast' = [op |-> "assign", exc |-> "none"]

\* double *Matrix::row(int r): return mat[r], unchecked.  With r outside
\* [0, rws) the read of mat[r] is outside the row table: undefined, the
\* call returns whatever lies there or the process is stopped; no
\* statement of it throws.
RowOutcomes(m, r) ==
  IF 0 <= r /\ r < m.rws
    THEN {[view |-> "row", exc |-> "none"]}
    ELSE {[view |-> "wild", exc |-> "none"], [view |-> "none", exc |-> "crash"]}

MatrixRow(s, r) ==
  /\ UNCHANGED exceptMat
  /\ Usable(mats[s])
  /\ UNCHANGED mats
  /\ \E o \in RowOutcomes(mats[s], r) :
       mlast' = [op |-> "row", exc |-> o.exc, tgt |-> s, r |-> r,
                 view |-> o.view]

\* one step of a loop that stores val at mat[i][j] of object t; a store
\* outside the object is undefined behaviour and leaves the object broken
StoreAt(ms, t, i, j, val) ==
  IF InStore(ms[t], i, j)
    THEN [ms EXCEPT ![t].el[i * ms[t].cls + j] = val]
    ELSE [ms EXCEPT ![t].broken = TRUE]

\* Matrix::transpose, the copy loops, as one counter n = i*cls + j over the
\* rws x cls elements of object a (read after the alloc of t, which is a
\* itself when the caller passes the matrix as its own output)
\* faulty variant: element (i,j) copied to (i,j)
RECURSIVE TransposeLoopNoSwap(_, _, _, _)
TransposeLoopNoSwap(ms, a, t, n) ==
  IF n >= ms[a].rws * ms[a].cls \/ ms[t].broken \/ ms[a].broken THEN ms
  ELSE LET i == n \div ms[a].cls
           j == n % ms[a].cls
       IN  TransposeLoopNoSwap(StoreAt(ms, t, i, j, At(ms[a], i, j)), a, t,
                               n + 1)

RECURSIVE TransposeLoop(_, _, _, _)
TransposeLoop(ms, a, t, n) ==
  IF n >= ms[a].rws * ms[a].cls \/ ms[t].broken \/ ms[a].broken THEN ms
  ELSE LET i == n \div ms[a].cls
           j == n % ms[a].cls
       IN  TransposeLoop(StoreAt(ms, t, j, i, At(ms[a], i, j)), a, t, n + 1)

\* Matrix::transpose(Matrix& transposedMat) const
Transpose(ms, a, t, fresh) ==
  LET need == ms[t].rws # ms[a].cls \/ ms[t].cls # ms[a].rws
      al == Alloc(ms[t], ms[a].cls, ms[a].rws, FALSE, fresh)
      ms1 == IF need THEN [ms EXCEPT ![t] = al.m] ELSE ms
  IN  IF need /\ al.exc # "none"
        THEN [ms |-> ms1, exc |-> al.exc]
        ELSE [ms |-> TransposeLoop(ms1, a, t, 0), exc |-> "none"]

MatrixTranspose(a, t) ==
  /\ UNCHANGED exceptMat
  /\ Usable(mats[a])
  /\ Usable(mats[t])
  /\ \E fresh \in MatFresh(AllocLen(mats[a].cls, mats[a].rws), a = t) :
       LET r == Transpose(mats, a, t, fresh)
       IN  /\ mats' = r.ms
           /\ mlast' = [op |-> "transpose", exc |-> r.exc]

\* Matrix::multiply, the inner loop: s += row[k] * b.mat[k][j] for k < cls;
\* "oob" when b.mat[k][j] or row[k] is outside its object
\* faulty variant: s = row[k] * b.mat[k][j], not accumulated
RECURSIVE DotLoopLast(_, _, _, _, _, _, _)
DotLoopLast(ms, a, b, i, j, k, s) ==
  IF k >= ms[a].cls THEN [s |-> s, oob |-> FALSE]
  ELSE IF ~InStore(ms[a], i, k) \/ ~InStore(ms[b], k, j)
         THEN [s |-> s, oob |-> TRUE]
         ELSE DotLoopLast(ms, a, b, i, j, k + 1,
                          At(ms[a], i, k) * At(ms[b], k, j))

RECURSIVE DotLoop(_, _, _, _, _, _, _)
DotLoop(ms, a, b, i, j, k, s) ==
  IF k >= ms[a].cls THEN [s |-> s, oob |-> FALSE]
  ELSE IF ~InStore(ms[a], i, k) \/ ~InStore(ms[b], k, j)
         THEN [s |-> s, oob |-> TRUE]
         ELSE DotLoop(ms, a, b, i, j, k + 1,
                      s + At(ms[a], i, k) * At(ms[b], k, j))

\* Matrix::multiply, the outer loops, as one counter n = i*b.cls + j
RECURSIVE MultiplyLoop(_, _, _, _, _)
MultiplyLoop(ms, a, b, res, n) ==
  IF n >= ms[a].rws * ms[b].cls \/ ms[res].broken THEN ms
  ELSE LET i == n \div ms[b].cls
           j == n % ms[b].cls
           d == DotLoop(ms, a, b, i, j, 0, 0)
       IN  IF d.oob
             THEN [ms EXCEPT ![res].broken = TRUE]
             ELSE MultiplyLoop(StoreAt(ms, res, i, j, d.s), a, b, res, n + 1)

\* faulty variant: result is reallocated before b.rws is compared with cls
MultiplyLateCheck(ms, a, b, res, fresh) ==
  LET need == ms[res].rws # ms[a].rws \/ ms[res].cls # ms[b].cls
      al == Alloc(ms[res], ms[a].rws, ms[b].cls, FALSE, fresh)
      ms1 == IF need THEN [ms EXCEPT ![res] = al.m] ELSE ms
  IN  IF ms[b].rws # ms[a].cls
        THEN [ms |-> ms1, exc |-> "IllegalArgument"]
        ELSE IF need /\ al.exc # "none"
               THEN [ms |-> ms1, exc |-> al.exc]
               ELSE [ms |-> MultiplyLoop(ms1, a, b, res, 0), exc |-> "none"]

\* Matrix::multiply(const Matrix& b, Matrix& result) const
Multiply(ms, a, b, res, fresh) ==
  IF ms[b].rws # ms[a].cls
    THEN [ms |-> ms, exc |-> "IllegalArgument"]
    ELSE LET need == ms[res].rws # ms[a].rws \/ ms[res].cls # ms[b].cls
             al == Alloc(ms[res], ms[a].rws, ms[b].cls, FALSE, fresh)
             ms1 == IF need THEN [ms EXCEPT ![res] = al.m] ELSE ms
         IN  IF need /\ al.exc # "none"
               THEN [ms |-> ms1, exc |-> al.exc]
               ELSE [ms |-> MultiplyLoop(ms1, a, b, res, 0), exc |-> "none"]

\* every entry an operation leaves stays in MatVals (the model's value bound)
EntriesBounded(ms) ==
  \A s \in MatSlots : \A x \in DOMAIN ms[s].el : ms[s].el[x] \in MatVals

MatrixMultiply(a, b, res) ==
  /\ UNCHANGED exceptMat
  /\ Usable(mats[a])
  /\ Usable(mats[b])
  /\ Usable(mats[res])
  /\ Fits(mats[a].rws, mats[b].cls)
  /\ \E fresh \in MatFresh(AllocLen(mats[a].rws, mats[b].cls), res \in {a, b}) :
       LET r == Multiply(mats, a, b, res, fresh)
       IN  /\ EntriesBounded(r.ms)
           /\ mats' = r.ms
           /\ mlast' = [op |-> "multiply", exc |-> r.exc]

MatNext ==
  \/ \E s \in MatSlots, r \in (-1)..MaxDim, c \in (-1)..MaxDim, z \in Bool :
       MatrixCtor(s, r, c, z)
  \/ \E s \in MatSlots, src \in MatSlots : MatrixCopyCtor(s, src)
  \/ \E s \in MatSlots : MatrixDtor(s)
  \/ \E s \in MatSlots, r \in (-1)..MaxDim, z \in Bool : MatrixSetRows(s, r, z)
  \/ \E s \in MatSlots, c \in (-1)..MaxDim, z \in Bool :
       MatrixSetColumns(s, c, z)
  \/ \E s \in MatSlots, r \in (-1)..MaxDim, c \in (-1)..MaxDim, z \in Bool :
       MatrixResize(s, r, c, z)
  \/ \E s \in MatSlots, src \in MatSlots : MatrixAssign(s, src)
  \/ \E a \in MatSlots, t \in MatSlots : MatrixTranspose(a, t)
  \/ \E a \in MatSlots, b \in MatSlots, res \in MatSlots :
       MatrixMultiply(a, b, res)
  \/ \E s \in MatSlots, r \in (-1)..MaxDim : MatrixRow(s, r)

(***************************************************************************)
(* double arithmetic, exact: a finite value is <<n, d>> with d > 0 in      *)
(* lowest terms.  NonFinite stands for +-inf and NaN; within one           *)
(* solveLDLT call on finite input no finite value is ever divided by an    *)
(* infinity (a pivot is finite or NaN), so every operation on a NonFinite  *)
(* operand yields a NonFinite result.  Uninit is the content of memory     *)
(* that was never written; a value computed from it is Uninit.             *)
(***************************************************************************)
NonFinite == <<1, 0>>
Uninit == <<0, 0>>

Abs(n) == IF n < 0 THEN -n ELSE n

RECURSIVE Gcd(_, _)
Gcd(a, b) == IF b = 0 THEN a ELSE Gcd(b, a % b)

\* the rational n/d (d # 0) in lowest terms with a positive denominator
Frac(n, d) ==
  LET g == Gcd(Abs(n), Abs(d))
      sgn == IF d < 0 THEN -1 ELSE 1
  IN  <<sgn * (n \div g), sgn * (d \div g)>>

Q(n) == <<n, 1>>

IsFinite(a) == a[2] # 0

Special(a, b) == IF a = Uninit \/ b = Uninit THEN Uninit ELSE NonFinite

Mul(a, b) ==
  IF IsFinite(a) /\ IsFinite(b) THEN Frac(a[1] * b[1], a[2] * b[2])
  ELSE Special(a, b)

Add(a, b) ==
  IF IsFinite(a) /\ IsFinite(b)
    THEN Frac(a[1] * b[2] + b[1] * a[2], a[2] * b[2])
  ELSE Special(a, b)

Sub(a, b) ==
  IF IsFinite(a) /\ IsFinite(b)
    THEN Frac(a[1] * b[2] - b[1] * a[2], a[2] * b[2])
  ELSE Special(a, b)

\* a / b: division by zero gives an infinity or a NaN
Div(a, b) ==
  IF IsFinite(a) /\ IsFinite(b)
    THEN IF b[1] = 0 THEN NonFinite ELSE Frac(a[1] * b[2], a[2] * b[1])
  ELSE Special(a, b)

\* fabs(m) < 1e-12, for m = n/d: |n| * 10^12 < d, that is
\* |n| <= (d-1) \div 10^12; false for an infinity and for a NaN
EpsDenRoot == 1000000

\* faulty variant: fabs(m) < 1
NegligibleCoarse(m) ==
  /\ IsFinite(m)
  /\ Abs(m[1]) < m[2]

Negligible(m) ==
  /\ IsFinite(m)
  /\ Abs(m[1]) <= ((m[2] - 1) \div EpsDenRoot) \div EpsDenRoot

(***************************************************************************)
(* Matrix::solveLDLT.  The coefficient matrix is a Matrix object whose     *)
(* entries are the values above; st = [el, lwb, r] is the state of the     *)
(* factorization: the matrix buffer, lwbIdx[] and the multiplier cache r[].*)
(***************************************************************************)
\* lines 440-441: lwbIdx[i] = 0 for i < cls, i-cls+1 for cls <= i < rws
\* faulty variant: i-cls+2
InitLwbOffByOne(rws, cls) ==
  [i \in 0..(rws - 1) |-> IF i < cls THEN 0 ELSE i - cls + 2]

\* faulty variant: i-cls
InitLwbLow(rws, cls) ==
  [i \in 0..(rws - 1) |-> IF i < cls THEN 0 ELSE i - cls]

InitLwb(rws, cls) == [i \in 0..(rws - 1) |-> IF i < cls THEN 0 ELSE i - cls + 1]

\* lines 448-453: for (j = lwbIdx[i]; j < i; ++j)
\*   { m = mat[j][i-j]; r[j] = mat[j][0] * m; dd -= r[j] * m; }
\* the result is st with the r[j] written, and dd
\* faulty variant: r[j] = m, without the factor mat[j][0]
RECURSIVE DiagLoopNoD(_, _, _, _, _)
DiagLoopNoD(st, cls, i, j, dd) ==
  IF j >= i THEN [st |-> st, dd |-> dd]
  ELSE LET m == st.el[j * cls + (i - j)]
       IN  DiagLoopNoD([st EXCEPT !.r[j] = m], cls, i, j + 1, Sub(dd, Mul(m, m)))

\* faulty variant: r[j] is not written when mat[j][i-j] is zero
RECURSIVE DiagLoopSkipZero(_, _, _, _, _)
DiagLoopSkipZero(st, cls, i, j, dd) ==
  IF j >= i THEN [st |-> st, dd |-> dd]
  ELSE LET m == st.el[j * cls + (i - j)]
           rj == Mul(st.el[j * cls], m)
       IN  DiagLoopSkipZero(IF m = Q(0) THEN st ELSE [st EXCEPT !.r[j] = rj],
                            cls, i, j + 1, Sub(dd, Mul(rj, m)))

RECURSIVE DiagLoop(_, _, _, _, _)
DiagLoop(st, cls, i, j, dd) ==
  IF j >= i THEN [st |-> st, dd |-> dd]
  ELSE LET m == st.el[j * cls + (i - j)]
           rj == Mul(st.el[j * cls], m)
       IN  DiagLoop([st EXCEPT !.r[j] = rj], cls, i, j + 1, Sub(dd, Mul(rj, m)))

\* lines 464-467: for (k = st; k < i; ++k) m -= mat[k][j-k] * r[k];
RECURSIVE MultLoop(_, _, _, _, _, _)
MultLoop(st, cls, i, j, k, m) ==
  IF k >= i THEN m
  ELSE MultLoop(st, cls, i, j, k + 1,
                Sub(m, Mul(st.el[k * cls + (j - k)], st.r[k])))

\* lines 459-474: for (j = i+1; j < upb; ++j): the multiplier of row i for
\* column j is completed, stored at mat[i][j-i], and lwbIdx[j] is advanced
\* when it is negligible and lwbIdx[j] == i
\* faulty variant: lwbIdx[j] advanced whatever the multiplier is
RECURSIVE OffDiagLoopSkipAll(_, _, _, _, _, _)
OffDiagLoopSkipAll(st, cls, i, j, upb, dd) ==
  IF j >= upb THEN st
  ELSE LET start == Max(st.lwb[i], st.lwb[j])
           m == Div(MultLoop(st, cls, i, j, start, st.el[i * cls + (j - i)]), dd)
           st1 == [st EXCEPT !.el[i * cls + (j - i)] = m]
           st2 == IF st1.lwb[j] = i
                    THEN [st1 EXCEPT !.lwb[j] = i + 1] ELSE st1
       IN  OffDiagLoopSkipAll(st2, cls, i, j + 1, upb, dd)

\* faulty variant: lwbIdx[j] = i+1 without the test lwbIdx[j] == i
RECURSIVE OffDiagLoopJump(_, _, _, _, _, _)
OffDiagLoopJump(st, cls, i, j, upb, dd) ==
  IF j >= upb THEN st
  ELSE LET start == Max(st.lwb[i], st.lwb[j])
           m == Div(MultLoop(st, cls, i, j, start, st.el[i * cls + (j - i)]), dd)
           st1 == [st EXCEPT !.el[i * cls + (j - i)] = m]
           st2 == IF Negligible(m) THEN [st1 EXCEPT !.lwb[j] = i + 1] ELSE st1
       IN  OffDiagLoopJump(st2, cls, i, j + 1, upb, dd)

RECURSIVE OffDiagLoop(_, _, _, _, _, _)
OffDiagLoop(st, cls, i, j, upb, dd) ==
  IF j >= upb THEN st
  ELSE LET start == Max(st.lwb[i], st.lwb[j])
           m == Div(MultLoop(st, cls, i, j, start, st.el[i * cls + (j - i)]), dd)
           st1 == [st EXCEPT !.el[i * cls + (j - i)] = m]
           st2 == IF Negligible(m) /\ st1.lwb[j] = i
                    THEN [st1 EXCEPT !.lwb[j] = i + 1] ELSE st1
       IN  OffDiagLoop(st2, cls, i, j + 1, upb, dd)

\* lines 445-475, one iteration of the elimination loop: row i
EliminateRow(st, rws, cls, i) ==
  LET d == DiagLoop(st, cls, i, st.lwb[i], st.el[i * cls])
      st1 == [d.st EXCEPT !.el[i * cls] = d.dd]
  IN  OffDiagLoop(st1, cls, i, i + 1, Min(i + cls, rws), d.dd)

\* lines 445-475: for (i = 0; i < rws; ++i)
RECURSIVE Eliminate(_, _, _, _)
Eliminate(st, rws, cls, i) ==
  IF i >= rws THEN st
  ELSE Eliminate(EliminateRow(st, rws, cls, i), rws, cls, i + 1)

\* lines 426-475: the scratch arrays are acquired (r[] uninitialised) and
\* the matrix is factorized in place
Factorize(m) ==
  Eliminate([el |-> m.el, lwb |-> InitLwb(m.rws, m.cls),
             r |-> [i \in 0..(m.rws - 1) |-> Uninit]],
            m.rws, m.cls, 0)

\* lines 477-479: forward substitution, the inner loop
\*   for (j = lwbIdx[i]; j < i; ++j) rhs[i] -= mat[j][i-j] * rhs[j];
RECURSIVE ForwardInner(_, _, _, _, _)
ForwardInner(va, el, cls, i, j) ==
  IF j >= i THEN va
  ELSE ForwardInner([va EXCEPT ![i] = Sub(va[i], Mul(el[j * cls + (i - j)], va[j]))],
                    el, cls, i, j + 1)

\* lines 477-479: for (i = 0; i < rws; ++i)
RECURSIVE Forward(_, _, _, _, _)
Forward(va, st, rws, cls, i) ==
  IF i >= rws THEN va
  ELSE Forward(ForwardInner(va, st.el, cls, i, st.lwb[i]), st, rws, cls, i + 1)

\* line 481: for (i = 0; i < rws; ++i) rhs[i] /= mat[i][0];
\* faulty variant: every rhs[i] divided by mat[0][0]
RECURSIVE ScaleByFirst(_, _, _, _, _)
ScaleByFirst(va, el, rws, cls, i) ==
  IF i >= rws THEN va
  ELSE ScaleByFirst([va EXCEPT ![i] = Div(va[i], el[0])], el, rws, cls, i + 1)

RECURSIVE Scale(_, _, _, _, _)
Scale(va, el, rws, cls, i) ==
  IF i >= rws THEN va
  ELSE Scale([va EXCEPT ![i] = Div(va[i], el[i * cls])], el, rws, cls, i + 1)

\* line 486: for (j = i+1; j < upb; ++j) rhs[i] -= mat[i][j-i] * rhs[j];
\* faulty variant: the loop stops one column early
RECURSIVE BackInnerShort(_, _, _, _, _, _)
BackInnerShort(va, el, cls, i, j, upb) ==
  IF j >= upb - 1 THEN va
  ELSE BackInnerShort([va EXCEPT ![i] = Sub(va[i], Mul(el[i * cls + (j - i)], va[j]))],
                      el, cls, i, j + 1, upb)

RECURSIVE BackInner(_, _, _, _, _, _)
BackInner(va, el, cls, i, j, upb) ==
  IF j >= upb THEN va
  ELSE BackInner([va EXCEPT ![i] = Sub(va[i], Mul(el[i * cls + (j - i)], va[j]))],
                 el, cls, i, j + 1, upb)

\* lines 483-487: for (i = rws-1; i >= 0; --i)
RECURSIVE Back(_, _, _, _, _)
Back(va, el, rws, cls, i) ==
  IF i < 0 THEN va
  ELSE Back(BackInner(va, el, cls, i, i + 1, Min(i + cls, rws)),
            el, rws, cls, i - 1)

\* faulty variant: the checks made after the factorization instead of
\* before it
SolveLDLTVectorLateCheck(m, v) ==
  IF m.rws < m.cls \/ v.sz # m.rws
    THEN [m |-> [m EXCEPT !.el = Factorize(m).el], v |-> v,
          exc |-> "IllegalArgument"]
    ELSE LET st == Factorize(m)
             fw == Forward(v.va, st, m.rws, m.cls, 0)
             sc == Scale(fw, st.el, m.rws, m.cls, 0)
             bk == Back(sc, st.el, m.rws, m.cls, m.rws - 1)
         IN  [m |-> [m EXCEPT !.el = st.el],
              v |-> [v EXCEPT !.va = bk],
              exc |-> "none"]

\* Matrix::solveLDLT(Vector& rhs): the matrix and the vector after the call
\* and the exception raised.  rhs[i] is Vector::operator[], in range here
\* because rhs.size() == rws.
SolveLDLTVector(m, v) ==
  IF m.rws < m.cls \/ v.sz # m.rws
    THEN [m |-> m, v |-> v, exc |-> "IllegalArgument"]
    ELSE LET st == Factorize(m)
             fw == Forward(v.va, st, m.rws, m.cls, 0)
             sc == Scale(fw, st.el, m.rws, m.cls, 0)
             bk == Back(sc, st.el, m.rws, m.cls, m.rws - 1)
         IN  [m |-> [m EXCEPT !.el = st.el],
              v |-> [v EXCEPT !.va = bk],
              exc |-> "none"]

(***************************************************************************)
(* Matrix::solveLDLT(Matrix& rhs) repeats the factorization in its own     *)
(* body (lines 538-568); it is modelled from those lines, separately.      *)
(***************************************************************************)
InitLwbM(rws, cls) == [i \in 0..(rws - 1) |-> IF i < cls THEN 0 ELSE i - cls + 1]

\* lines 544-549: for (j = lwbIdx[i]; j < i; ++j)
\*   { m = mat[j][i-j]; r[j] = mat[j][0] * m; dd -= r[j] * m; }
\* the result is st with the r[j] written, and dd
RECURSIVE DiagLoopM(_, _, _, _, _)
DiagLoopM(st, cls, i, j, dd) ==
  IF j >= i THEN [st |-> st, dd |-> dd]
  ELSE LET m == st.el[j * cls + (i - j)]
           rj == Mul(st.el[j * cls], m)
       IN  DiagLoopM([st EXCEPT !.r[j] = rj], cls, i, j + 1, Sub(dd, Mul(rj, m)))

\* line 560: for (k = st; k < i; ++k) m -= mat[k][j-k] * r[k];
RECURSIVE MultLoopM(_, _, _, _, _, _)
MultLoopM(st, cls, i, j, k, m) ==
  IF k >= i THEN m
  ELSE MultLoopM(st, cls, i, j, k + 1,
                Sub(m, Mul(st.el[k * cls + (j - k)], st.r[k])))

\* lines 555-567: for (j = i+1; j < upb; ++j): the multiplier of row i for
\* column j is completed, stored at mat[i][j-i], and lwbIdx[j] is advanced
\* when it is negligible and lwbIdx[j] == i
RECURSIVE OffDiagLoopM(_, _, _, _, _, _)
OffDiagLoopM(st, cls, i, j, upb, dd) ==
  IF j >= upb THEN st
  ELSE LET start == Max(st.lwb[i], st.lwb[j])
           m == Div(MultLoopM(st, cls, i, j, start, st.el[i * cls + (j - i)]), dd)
           st1 == [st EXCEPT !.el[i * cls + (j - i)] = m]
           st2 == IF Negligible(m) /\ st1.lwb[j] = i
                    THEN [st1 EXCEPT !.lwb[j] = i + 1] ELSE st1
       IN  OffDiagLoopM(st2, cls, i, j + 1, upb, dd)

\* lines 541-568, one iteration of the elimination loop: row i
EliminateRowM(st, rws, cls, i) ==
  LET d == DiagLoopM(st, cls, i, st.lwb[i], st.el[i * cls])
      st1 == [d.st EXCEPT !.el[i * cls] = d.dd]
  IN  OffDiagLoopM(st1, cls, i, i + 1, Min(i + cls, rws), d.dd)

\* lines 541-568: for (i = 0; i < rws; ++i)
RECURSIVE EliminateM(_, _, _, _)
EliminateM(st, rws, cls, i) ==
  IF i >= rws THEN st
  ELSE EliminateM(EliminateRowM(st, rws, cls, i), rws, cls, i + 1)

\* lines 524-568: the scratch arrays are acquired (r[] uninitialised) and
\* the matrix is factorized in place
FactorizeM(m) ==
  EliminateM([el |-> m.el, lwb |-> InitLwbM(m.rws, m.cls),
             r |-> [i \in 0..(m.rws - 1) |-> Uninit]],
            m.rws, m.cls, 0)

\* line 576: for (k = 0; k < rhsColSz; ++k) rhs(i,k) -= m * rhs(j,k);
\* rhs(i,k) is the unchecked accessor: el[i*rhsColSz + k]
\* faulty variant: rhs(j,0) used for every column k
RECURSIVE RowAxpyFirstColumn(_, _, _, _, _, _)
RowAxpyFirstColumn(rel, n, i, j, m, k) ==
  IF k >= n THEN rel
  ELSE RowAxpyFirstColumn(
         [rel EXCEPT ![i * n + k] = Sub(rel[i * n + k], Mul(m, rel[j * n]))],
         n, i, j, m, k + 1)

RECURSIVE RowAxpy(_, _, _, _, _, _)
RowAxpy(rel, n, i, j, m, k) ==
  IF k >= n THEN rel
  ELSE RowAxpy([rel EXCEPT ![i * n + k] = Sub(rel[i * n + k], Mul(m, rel[j * n + k]))],
               n, i, j, m, k + 1)

\* lines 573-577: for (j = lwbIdx[i]; j < i; ++j) { m = mat[j][i-j]; ... }
RECURSIVE ForwardInnerM(_, _, _, _, _, _)
ForwardInnerM(rel, n, el, cls, i, j) ==
  IF j >= i THEN rel
  ELSE ForwardInnerM(RowAxpy(rel, n, i, j, el[j * cls + (i - j)], 0),
                     n, el, cls, i, j + 1)

\* lines 572-578: for (i = 0; i < rws; ++i)
RECURSIVE ForwardM(_, _, _, _, _, _)
ForwardM(rel, n, st, rws, cls, i) ==
  IF i >= rws THEN rel
  ELSE ForwardM(ForwardInnerM(rel, n, st.el, cls, i, st.lwb[i]),
                n, st, rws, cls, i + 1)

\* line 582: for (j = 0; j < rhsColSz; ++j) rhs(i,j) /= d;
RECURSIVE RowScale(_, _, _, _, _)
RowScale(rel, n, i, d, j) ==
  IF j >= n THEN rel
  ELSE RowScale([rel EXCEPT ![i * n + j] = Div(rel[i * n + j], d)], n, i, d, j + 1)

\* lines 580-583: for (i = 0; i < rws; ++i) { d = mat[i][0]; ... }
RECURSIVE ScaleM(_, _, _, _, _, _)
ScaleM(rel, n, el, rws, cls, i) ==
  IF i >= rws THEN rel
  ELSE ScaleM(RowScale(rel, n, i, el[i * cls], 0), n, el, rws, cls, i + 1)

\* lines 588-592: for (j = i+1; j < upb; ++j) { m = mat[i][j-i]; ... }
RECURSIVE BackInnerM(_, _, _, _, _, _, _)
BackInnerM(rel, n, el, cls, i, j, upb) ==
  IF j >= upb THEN rel
  ELSE BackInnerM(RowAxpy(rel, n, i, j, el[i * cls + (j - i)], 0),
                  n, el, cls, i, j + 1, upb)

\* lines 585-593: for (i = rws-1; i >= 0; --i)
RECURSIVE BackM(_, _, _, _, _, _)
BackM(rel, n, el, rws, cls, i) ==
  IF i < 0 THEN rel
  ELSE BackM(BackInnerM(rel, n, el, cls, i, i + 1, Min(i + cls, rws)),
             n, el, rws, cls, i - 1)

\* Matrix::solveLDLT(Matrix& rhs): the matrix and the right-hand side after
\* the call and the exception raised
SolveLDLTMatrix(m, b) ==
  IF m.rws < m.cls \/ b.rws # m.rws
    THEN [m |-> m, b |-> b, exc |-> "IllegalArgument"]
    ELSE LET st == FactorizeM(m)
             fw == ForwardM(b.el, b.cls, st, m.rws, m.cls, 0)
             sc == ScaleM(fw, b.cls, st.el, m.rws, m.cls, 0)
             bk == BackM(sc, b.cls, st.el, m.rws, m.cls, m.rws - 1)
         IN  [m |-> [m EXCEPT !.el = st.el],
              b |-> [b EXCEPT !.el = bk],
              exc |-> "none"]

(***************************************************************************)
(* The solver's callers: a banded coefficient matrix and a right-hand      *)
(* side are built, then solveLDLT is called.                               *)
(***************************************************************************)
MaxRows == 3              \* largest number of rows (and of columns) of A

DiagVals == {1, 4}        \* diagonal entries of A
OffVals == {-1, 0, 1}     \* off-diagonal band entries of A
PadVals == {0, 5}         \* what the slots past the last row hold (i+k >= rws)
XVals == {-1, 0, 1}       \* entries of a solution vector x

\* the band slots (i, k), k >= 1, that hold an entry of the matrix
BandIdx(r, c) == {p \in (0..(r - 1)) \X (1..(c - 1)) : p[1] + p[2] < r}

\* the matrix object holding the band: entry (i, i+k) at mat[i][k]
Coef(r, c, diag, off, pad) ==
  [live |-> TRUE, broken |-> FALSE, rws |-> r, cls |-> c,
   el |-> [x \in 0..(r * c - 1) |->
             LET i == x \div c
                 k == x % c
             IN  IF i + k >= r THEN Q(pad)
                 ELSE IF k = 0 THEN Q(diag[i]) ELSE Q(off[<<i, k>>])]]

\* entry (i, j) of the full symmetric matrix the band storage stands for
Full(m, i, j) ==
  LET lo == Min(i, j)
      k == Abs(i - j)
  IN  IF k < m.cls THEN m.el[lo * m.cls + k] ELSE Q(0)

RECURSIVE RowDot(_, _, _, _)
RowDot(m, x, i, j) ==
  IF j >= m.rws THEN Q(0)
  ELSE Add(Mul(Full(m, i, j), x[j]), RowDot(m, x, i, j + 1))

\* A_full * x, by the full, unbanded multiply
FullMul(m, x) == [i \in 0..(m.rws - 1) |-> RowDot(m, x, i, 0)]

Ramp(n, from) == [i \in 0..(n - 1) |-> Q(from + i)]

VectorOf(buf, n) ==
  [live |-> TRUE, va |-> buf, sz |-> n, cap |-> Cardinality(DOMAIN buf)]

\* the rows x 2 matrix with columns c0 and c1, and the rows x 1 matrix
TwoColumns(n, c0, c1) ==
  [live |-> TRUE, broken |-> FALSE, rws |-> n, cls |-> 2,
   el |-> [x \in 0..(2 * n - 1) |-> IF x % 2 = 0 THEN c0[x \div 2] ELSE c1[x \div 2]]]

OneColumn(n, c0) ==
  [live |-> TRUE, broken |-> FALSE, rws |-> n, cls |-> 1, el |-> c0]

VecRhs(v) == [kind |-> "vec", v |-> v, b |-> NoMatrix]
MatRhs(b) == [kind |-> "mat", v |-> NoVector, b |-> b]

\* the images A_full * x of the candidate solutions
Solutions(n) == {[i \in 0..(n - 1) |-> Q(x[i])] : x \in [0..(n - 1) -> XVals]}

Images(m) == {FullMul(m, x) : x \in Solutions(m.rws)}

\* the right-hand sides a caller passes with m: vectors and matrices with
\* m.rws rows, and some with another row count
RhsSet(m) ==
  LET n == m.rws
  IN  {VecRhs(VectorOf(c, n)) : c \in Images(m) \cup {Ramp(n, 1), Ramp(n, 4)}}
      \cup {VecRhs(VectorOf(Ramp(n + 1, 1), n)),       \* size n, capacity n+1
            VecRhs(VectorOf(Ramp(n + 1, 1), n + 1)),
            VecRhs(VectorOf(Ramp(n - 1, 1), n - 1))}
      \cup {MatRhs(TwoColumns(n, c, Ramp(n, 4))) : c \in Images(m) \cup {Ramp(n, 1)}}
      \cup {MatRhs(OneColumn(n, Ramp(n, 1))),
            MatRhs(TwoColumns(n + 1, Ramp(n + 1, 1), Ramp(n + 1, 4))),
            MatRhs(OneColumn(n - 1, Ramp(n - 1, 1)))}

NoCall == [call |-> "none", exc |-> "none"]

Solved == outcome.call # "none" /\ outcome.exc = "none"

SolveInit ==
  \E r \in 1..MaxRows, c \in 1..MaxRows :
    \E diag \in [0..(r - 1) -> DiagVals], off \in [BandIdx(r, c) -> OffVals],
       pad \in PadVals :
      \E b \in RhsSet(Coef(r, c, diag, off, pad)) :
        /\ A = Coef(r, c, diag, off, pad)
        /\ rhs = b
        /\ A0 = A
        /\ rhs0 = rhs
        /\ outcome = NoCall

\* A.solveLDLT(rhs) with a Vector rhs
SolveVector ==
  /\ UNCHANGED exceptSolve
  /\ ~Solved
  /\ rhs.kind = "vec"
  /\ LET res == SolveLDLTVector(A, rhs.v)
     IN  /\ A' = res.m
         /\ rhs' = VecRhs(res.v)
         /\ outcome' = [call |-> "vector", exc |-> res.exc]
  /\ A0' = A
  /\ rhs0' = rhs

\* A.solveLDLT(rhs) with a Matrix rhs
SolveMatrix ==
  /\ UNCHANGED exceptSolve
  /\ ~Solved
  /\ rhs.kind = "mat"
  /\ LET res == SolveLDLTMatrix(A, rhs.b)
     IN  /\ A' = res.m
         /\ rhs' = MatRhs(res.b)
         /\ outcome' = [call |-> "matrix", exc |-> res.exc]
  /\ A0' = A
  /\ rhs0' = rhs

SolveNext == SolveVector \/ SolveMatrix

(***************************************************************************)
(* Ownership of the backing storage.  Here a Vector holds the pointer va   *)
(* and a Matrix the pointer matRows (the row table mat is allocated and    *)
(* freed together with it and points into it), both as addresses of the    *)
(* free store heap; new[] takes any address not in use, delete[] returns   *)
(* it.                                                                     *)
(***************************************************************************)
Addrs == {1, 2, 3}
ObjSlots == {1, 2}

NoBuffer == [used |-> FALSE, data |-> <<>>]
NoObject ==
  [kind |-> "none", ptr |-> 0, sz |-> 0, cap |-> 0, rws |-> 0, cls |-> 0]
NoHeapOp == [op |-> "none", tgt |-> 0, src |-> 0, exc |-> "none"]

IsVector(o) == o.kind = "Vector"
IsMatrix(o) == o.kind = "Matrix"

\* the addresses new[] can return
FreeAddrs(h) == {a \in Addrs : ~h[a].used}

\* p = new double[n], at address a, holding data
New(h, a, data) == [h EXCEPT ![a] = [used |-> TRUE, data |-> data]]

\* delete[] p (delete[] NULL does nothing)
Delete(h, p) == IF p \in Addrs THEN [h EXCEPT ![p] = NoBuffer] ELSE h

\* memmove(dst, src, n*sizeof(double)) between two buffers of the store
MemMove(h, dst, src, n) ==
  [h EXCEPT ![dst].data = CopyPrefix(h[dst].data, h[src].data, n)]

\* the Vector an object is: its buffer read through va
VecAt(h, o) ==
  [live |-> TRUE, va |-> h[o.ptr].data, sz |-> o.sz, cap |-> o.cap]

\* the copy constructors: new double[n] at a, then memmove from p
\* faulty variant: the pointer is copied, not the buffer
ShareBuffer(h, p, n, a) == [h |-> h, ptr |-> p]

CopyBuffer(h, p, n, a) ==
  [h |-> MemMove(New(h, a, [i \in 0..(n - 1) |-> 0]), a, p, n), ptr |-> a]

\* the addresses setSize can get from new double[newSz]: with preserve the
\* old buffer is still allocated, else it was deleted first; in the window
\* nothing is allocated
SetSizeAddrs(h, o, newSz, preserve) ==
  IF newSz < 0 \/ InWindow(o, newSz) THEN {o.ptr}
  ELSE IF preserve THEN FreeAddrs(h) ELSE FreeAddrs(Delete(h, o.ptr))

\* Vector::setSize on an object of the store
HSetSize(h, o, newSz, preserve, zeroInit, fresh, a) ==
  LET r == SetSize(VecAt(h, o), newSz, preserve, zeroInit, fresh)
  IN  IF r.exc # "none" THEN [h |-> h, o |-> o, exc |-> r.exc]
      ELSE IF InWindow(o, newSz)
        THEN [h |-> [h EXCEPT ![o.ptr].data = r.v.va],
              o |-> [o EXCEPT !.sz = newSz], exc |-> "none"]
        ELSE [h |-> New(Delete(h, o.ptr), a, r.v.va),
              o |-> [o EXCEPT !.ptr = a, !.sz = newSz, !.cap = newSz],
              exc |-> "none"]

\* Matrix::alloc on an object of the store (rows >= 1, cols >= 1)
HAlloc(h, o, rows, cols, setZero, fresh, a) ==
  [h |-> New(Delete(h, o.ptr), a,
             IF setZero THEN [i \in DOMAIN fresh |-> 0] ELSE fresh),
   o |-> [o EXCEPT !.kind = "Matrix", !.ptr = a, !.rws = rows, !.cls = cols]]

HeapInit ==
  /\ heap = [a \in Addrs |-> NoBuffer]
  /\ objs = [s \in ObjSlots |-> NoObject]
  /\ hlast = NoHeapOp

\* Vector::Vector(int vSize, bool zeroInit)
HVectorCtor(s, vSize, zeroInit) ==
  /\ UNCHANGED exceptHeap
  /\ objs[s].kind = "none"
  /\ IF vSize < 0
       THEN /\ UNCHANGED <<heap, objs>>
            /\ hlast' = [op |-> "ctor", tgt |-> s, src |-> s,
                         exc |-> "IllegalArgument"]
       ELSE \E a \in FreeAddrs(heap), fresh \in Fresh(vSize, ~zeroInit) :
            /\ heap' = New(heap, a, IF zeroInit THEN ZeroRange(fresh, 0, vSize)
                                                ELSE fresh)
            /\ objs' = [objs EXCEPT ![s] =
                 [NoObject EXCEPT !.kind = "Vector", !.ptr = a,
                                  !.sz = vSize, !.cap = vSize]]
            /\ hlast' = [op |-> "ctor", tgt |-> s, src |-> s, exc |-> "none"]

\* Vector::Vector(const Vector& cp)
HVectorCopyCtor(s, src) ==
  /\ UNCHANGED exceptHeap
  /\ objs[s].kind = "none"
  /\ IsVector(objs[src])
  /\ \E a \in FreeAddrs(heap) :
       LET c == CopyBuffer(heap, objs[src].ptr, objs[src].sz, a)
       IN  /\ heap' = c.h
           /\ objs' = [objs EXCEPT ![s] =
                [NoObject EXCEPT !.kind = "Vector", !.ptr = c.ptr,
                                 !.sz = objs[src].sz, !.cap = objs[src].sz]]
  /\ hlast' = [op |-> "copy", tgt |-> s, src |-> src, exc |-> "none"]

\* Vector::operator=(const Vector& src): setSize(src.sz,false,false), then
\* memmove(va, src.va, sz) with src.va read after the setSize
HVectorAssign(s, src) ==
  /\ UNCHANGED exceptHeap
  /\ IsVector(objs[s])
  /\ IsVector(objs[src])
  /\ \E a \in SetSizeAddrs(heap, objs[s], objs[src].sz, FALSE),
        fresh \in Fresh(objs[src].sz, FALSE) :
       LET r == HSetSize(heap, objs[s], objs[src].sz, FALSE, FALSE, fresh, a)
           os == [objs EXCEPT ![s] = r.o]
       IN  /\ heap' = MemMove(r.h, os[s].ptr, os[src].ptr, os[s].sz)
           /\ objs' = os
  /\ hlast' = [op |-> "assign", tgt |-> s, src |-> src, exc |-> "none"]

\* Vector::setSize(int newSz, bool preserve, bool zeroInit)
HVectorSetSize(s, newSz, preserve, zeroInit) ==
  /\ UNCHANGED exceptHeap
  /\ IsVector(objs[s])
  /\ \E a \in SetSizeAddrs(heap, objs[s], newSz, preserve),
        fresh \in Fresh(newSz, ~zeroInit) :
       LET r == HSetSize(heap, objs[s], newSz, preserve, zeroInit, fresh, a)
       IN  /\ heap' = r.h
           /\ objs' = [objs EXCEPT ![s] = r.o]
           /\ hlast' = [op |-> "setSize", tgt |-> s, src |-> s, exc |-> r.exc]

\* double& Vector::operator[](int idx), used to store val
HVectorStore(s, idx, val) ==
  /\ UNCHANGED exceptHeap
  /\ IsVector(objs[s])
  /\ UNCHANGED objs
  /\ IF idx < 0 \/ idx >= objs[s].sz
       THEN /\ UNCHANGED heap
            /\ hlast' = [op |-> "store", tgt |-> s, src |-> s,
                         exc |-> "IndexOutOfBounds"]
       ELSE /\ heap' = [heap EXCEPT ![objs[s].ptr].data[idx] = val]
            /\ hlast' = [op |-> "store", tgt |-> s, src |-> s, exc |-> "none"]

\* Vector::~Vector()
HVectorDtor(s) ==
  /\ UNCHANGED exceptHeap
  /\ IsVector(objs[s])
  /\ heap' = Delete(heap, objs[s].ptr)
  /\ objs' = [objs EXCEPT ![s] = NoObject]
  /\ hlast' = [op |-> "dtor", tgt |-> s, src |-> s, exc |-> "none"]

\* Matrix::Matrix(int rows, int cols, bool zeroInit), rows >= 1, cols >= 1
HMatrixCtor(s, rows, cols, zeroInit) ==
  /\ UNCHANGED exceptHeap
  /\ objs[s].kind = "none"
  /\ Fits(rows, cols)
  /\ \E a \in FreeAddrs(heap), fresh \in MatFresh(rows * cols, ~zeroInit) :
       LET r == HAlloc(heap, NoObject, rows, cols, zeroInit, fresh, a)
       IN  /\ heap' = r.h
           /\ objs' = [objs EXCEPT ![s] = r.o]
  /\ hlast' = [op |-> "ctor", tgt |-> s, src |-> s, exc |-> "none"]

\* Matrix::Matrix(const Matrix& cp)
HMatrixCopyCtor(s, src) ==
  /\ UNCHANGED exceptHeap
  /\ objs[s].kind = "none"
  /\ IsMatrix(objs[src])
  /\ \E a \in FreeAddrs(heap) :
       LET c == CopyBuffer(heap, objs[src].ptr,
                           objs[src].rws * objs[src].cls, a)
       IN  /\ heap' = c.h
           /\ objs' = [objs EXCEPT ![s] =
                [NoObject EXCEPT !.kind = "Matrix", !.ptr = c.ptr,
                                 !.rws = objs[src].rws, !.cls = objs[src].cls]]
  /\ hlast' = [op |-> "copy", tgt |-> s, src |-> src, exc |-> "none"]

\* Matrix::operator=(const Matrix& src): alloc when the shapes differ, then
\* memmove(matRows, src.matRows, rws*cls)
HMatrixAssign(s, src) ==
  /\ UNCHANGED exceptHeap
  /\ IsMatrix(objs[s])
  /\ IsMatrix(objs[src])
  /\ LET o == objs[s]
         from == objs[src]
     IN  IF o.rws # from.rws \/ o.cls # from.cls
           THEN \E a \in FreeAddrs(Delete(heap, o.ptr)),
                   fresh \in MatFresh(from.rws * from.cls, FALSE) :
                  LET r == HAlloc(heap, o, from.rws, from.cls, FALSE, fresh, a)
                  IN  /\ heap' = MemMove(r.h, a, from.ptr, from.rws * from.cls)
                      /\ objs' = [objs EXCEPT ![s] = r.o]
           ELSE /\ heap' = MemMove(heap, o.ptr, from.ptr, o.rws * o.cls)
                /\ UNCHANGED objs
  /\ hlast' = [op |-> "assign", tgt |-> s, src |-> src, exc |-> "none"]

\* Matrix::resize(int rows, int cols, bool zeroInit)
HMatrixResize(s, rows, cols, zeroInit) ==
  /\ UNCHANGED exceptHeap
  /\ IsMatrix(objs[s])
  /\ IF rows < 1 \/ cols < 1
       THEN /\ UNCHANGED <<heap, objs>>
            /\ hlast' = [op |-> "resize", tgt |-> s, src |-> s,
                         exc |-> "IllegalArgument"]
       ELSE /\ Fits(rows, cols)
            /\ \E a \in FreeAddrs(Delete(heap, objs[s].ptr)),
                  fresh \in MatFresh(rows * cols, ~zeroInit) :
                 LET r == HAlloc(heap, objs[s], rows, cols, zeroInit, fresh, a)
                 IN  /\ heap' = r.h
                     /\ objs' = [objs EXCEPT ![s] = r.o]
            /\ hlast' = [op |-> "resize", tgt |-> s, src |-> s, exc |-> "none"]

\* double& Matrix::operator()(int r, int c), used to store val at an
\* element of the matrix
HMatrixStore(s, i, j, val) ==
  /\ UNCHANGED exceptHeap
  /\ IsMatrix(objs[s])
  /\ i < objs[s].rws /\ j < objs[s].cls
  /\ heap' = [heap EXCEPT ![objs[s].ptr].data[i * objs[s].cls + j] = val]
  /\ UNCHANGED objs
  /\ hlast' = [op |-> "store", tgt |-> s, src |-> s, exc |-> "none"]

\* Matrix::~Matrix()
HMatrixDtor(s) ==
  /\ UNCHANGED exceptHeap
  /\ IsMatrix(objs[s])
  /\ heap' = Delete(heap, objs[s].ptr)
  /\ objs' = [objs EXCEPT ![s] = NoObject]
  /\ hlast' = [op |-> "dtor", tgt |-> s, src |-> s, exc |-> "none"]

HeapNext ==
  \/ \E s \in ObjSlots, n \in (-1)..MaxSize, z \in Bool : HVectorCtor(s, n, z)
  \/ \E s \in ObjSlots, src \in ObjSlots : HVectorCopyCtor(s, src)
  \/ \E s \in ObjSlots, src \in ObjSlots : HVectorAssign(s, src)
  \/ \E s \in ObjSlots, n \in (-1)..MaxSize, p \in Bool, z \in Bool :
       HVectorSetSize(s, n, p, z)
  \/ \E s \in ObjSlots, i \in (-1)..MaxSize, x \in VecVals :
       HVectorStore(s, i, x)
  \/ \E s \in ObjSlots : HVectorDtor(s)
  \/ \E s \in ObjSlots, r \in 1..MaxDim, c \in 1..MaxDim, z \in Bool :
       HMatrixCtor(s, r, c, z)
  \/ \E s \in ObjSlots, src \in ObjSlots : HMatrixCopyCtor(s, src)
  \/ \E s \in ObjSlots, src \in ObjSlots : HMatrixAssign(s, src)
  \/ \E s \in ObjSlots, r \in 0..MaxDim, c \in 0..MaxDim, z \in Bool :
       HMatrixResize(s, r, c, z)
  \/ \E s \in ObjSlots, i \in 0..(MaxDim - 1), j \in 0..(MaxDim - 1),
        x \in MatVals : HMatrixStore(s, i, j, x)
  \/ \E s \in ObjSlots : HMatrixDtor(s)

(***************************************************************************)
(* Callers of transpose and multiply: A.transpose(out) and                 *)
(* A.multiply(b, out) on three matrices A = ops[1], b = ops[2] and         *)
(* out = ops[3] of any shapes up to MaxShape x MaxShape.                   *)
(***************************************************************************)
MaxShape == 3            \* largest number of rows and of columns

\* the r x c matrix with mat[i][j] = f[i, j]
MatrixOf(r, c, f(_, _)) ==
  [live |-> TRUE, broken |-> FALSE, rws |-> r, cls |-> c,
   el |-> [x \in 0..(r * c - 1) |-> f(x \div c, x % c)]]

\* the matrices a caller passes as A and as b: all entries different, the
\* identity pattern, and a pattern with zero and negative entries
Count(r, c) == MatrixOf(r, c, LAMBDA i, j : i * c + j + 1)
Identity(r, c) == MatrixOf(r, c, LAMBDA i, j : IF i = j THEN 1 ELSE 0)
Signed(r, c) == MatrixOf(r, c, LAMBDA i, j : ((2 * i + j) % 3) - 1)

Shapes == (1..MaxShape) \X (1..MaxShape)

Operands ==
  UNION {{Count(p[1], p[2]), Identity(p[1], p[2]), Signed(p[1], p[2])} :
           p \in Shapes}

\* the matrices a caller passes as output: any shape, holding old entries
Outputs == {MatrixOf(p[1], p[2], LAMBDA i, j : 7) : p \in Shapes}

NoProdOp == [op |-> "none", exc |-> "none"]

ProdInit ==
  /\ ops \in {<<a, b, out>> : a \in Operands, b \in Operands, out \in Outputs}
  /\ ops0 = ops
  /\ plast = NoProdOp

\* A.transpose(out)
CallTranspose ==
  /\ UNCHANGED exceptProd
  /\ plast.op = "none"
  /\ \E fresh \in MatFresh(AllocLen(ops[1].cls, ops[1].rws), FALSE) :
       LET r == Transpose(ops, 1, 3, fresh)
       IN  /\ ops' = r.ms
           /\ plast' = [op |-> "transpose", exc |-> r.exc]
  /\ ops0' = ops

\* A.multiply(b, out)
CallMultiply ==
  /\ UNCHANGED exceptProd
  /\ plast.op = "none"
  /\ \E fresh \in MatFresh(AllocLen(ops[1].rws, ops[2].cls), FALSE) :
       LET r == Multiply(ops, 1, 2, 3, fresh)
       IN  /\ ops' = r.ms
           /\ plast' = [op |-> "multiply", exc |-> r.exc]
  /\ ops0' = ops

\* what new double[n] may hold when the output is one of the operands and
\* is read before it is written
Stale(n) == {[x \in 0..(n - 1) |-> v] : v \in {0, 9}}

\* A.transpose(A)
CallTransposeSelf ==
  /\ UNCHANGED exceptProd
  /\ plast.op = "none"
  /\ \E fresh \in Stale(AllocLen(ops[1].cls, ops[1].rws)) :
       LET r == Transpose(ops, 1, 1, fresh)
       IN  /\ ops' = r.ms
           /\ plast' = [op |-> "transposeSelf", exc |-> r.exc]
  /\ ops0' = ops

\* A.multiply(b, A)
CallMultiplyIntoA ==
  /\ UNCHANGED exceptProd
  /\ plast.op = "none"
  /\ \E fresh \in Stale(AllocLen(ops[1].rws, ops[2].cls)) :
       LET r == Multiply(ops, 1, 2, 1, fresh)
       IN  /\ ops' = r.ms
           /\ plast' = [op |-> "multiplyIntoA", exc |-> r.exc]
  /\ ops0' = ops

\* A.multiply(b, b)
CallMultiplyIntoB ==
  /\ UNCHANGED exceptProd
  /\ plast.op = "none"
  /\ \E fresh \in Stale(AllocLen(ops[1].rws, ops[2].cls)) :
       LET r == Multiply(ops, 1, 2, 2, fresh)
       IN  /\ ops' = r.ms
           /\ plast' = [op |-> "multiplyIntoB", exc |-> r.exc]
  /\ ops0' = ops

ProdNext ==
  \/ CallTranspose
  \/ CallMultiply
  \/ CallTransposeSelf
  \/ CallMultiplyIntoA
  \/ CallMultiplyIntoB

(***************************************************************************)
(* The scratch buffers of solveLDLT: int *lwbIdx and double *r, acquired   *)
(* at lines 428-438 (526-536) and released at lines 489-492 (595-598).     *)
(* _malloca(n) gives memory of the caller's stack frame or, when n is      *)
(* large for the build (always, in a debug build), of the heap; stack      *)
(* memory goes at return, heap memory stays until it is freed.  Between    *)
(* acquisition and release the solver allocates nothing and has no throw.  *)
(***************************************************************************)
MaxAllocSz == 4000
MaxCalls == 2           \* solveLDLT calls in one behaviour

RowsTried == {1, 2, MaxAllocSz, MaxAllocSz + 1}
MallocaStores == {"stack", "heap"}

\* lines 431-438: new[] above MaxAllocSz rows, _malloca otherwise
Acquire(rws, sl, sr) ==
  IF rws > MaxAllocSz
    THEN {[buf |-> "lwbIdx", store |-> "new"], [buf |-> "r", store |-> "new"]}
    ELSE {[buf |-> "lwbIdx", store |-> sl], [buf |-> "r", store |-> sr]}

\* lines 489-492: delete[] above MaxAllocSz rows, nothing otherwise
Release(blocks, rws) ==
  IF rws > MaxAllocSz THEN {b \in blocks : b.store # "new"} ELSE blocks

\* the return: the stack frame goes
Return(blocks) == {b \in blocks : b.store # "stack"}

\* the scratch side of one solveLDLT call on a rws x cls matrix with a
\* right-hand side of n rows: what stays allocated and the exception
ScratchOf(rws, cls, n, sl, sr) ==
  IF rws < cls \/ n # rws
    THEN [left |-> {}, exc |-> "IllegalArgument"]
    ELSE [left |-> Return(Release(Acquire(rws, sl, sr), rws)), exc |-> "none"]

NoScratchOp == [call |-> "none", rws |-> 0, cls |-> 0, n |-> 0, exc |-> "none"]

ScratchInit ==
  /\ scratch = {}
  /\ calls = 0
  /\ slast = NoScratchOp

\* the blocks a call leaves allocated, tagged with the call's number
Tagged(left, k) ==
  {[call |-> k, buf |-> b.buf, store |-> b.store] : b \in left}

\* Matrix::solveLDLT(Vector& rhs)
ScratchSolveVector ==
  /\ UNCHANGED exceptScratch
  /\ calls < MaxCalls
  /\ calls' = calls + 1
  /\ \E rws \in RowsTried, sl \in MallocaStores, sr \in MallocaStores :
       \E cls \in {1, rws, rws + 1}, n \in {rws, rws + 1} :
         LET o == ScratchOf(rws, cls, n, sl, sr)
         IN  /\ scratch' = scratch \cup Tagged(o.left, calls + 1)
             /\ slast' = [call |-> "vector", rws |-> rws, cls |-> cls,
                          n |-> n, exc |-> o.exc]

\* Matrix::solveLDLT(Matrix& rhs)
ScratchSolveMatrix ==
  /\ UNCHANGED exceptScratch
  /\ calls < MaxCalls
  /\ calls' = calls + 1
  /\ \E rws \in RowsTried, sl \in MallocaStores, sr \in MallocaStores :
       \E cls \in {1, rws, rws + 1}, n \in {rws, rws + 1} :
         LET o == ScratchOf(rws, cls, n, sl, sr)
         IN  /\ scratch' = scratch \cup Tagged(o.left, calls + 1)
             /\ slast' = [call |-> "matrix", rws |-> rws, cls |-> cls,
                          n |-> n, exc |-> o.exc]

ScratchNext == ScratchSolveVector \/ ScratchSolveMatrix

(***************************************************************************)
(* Array<T> (inc/1.0/Array.h, ArrayImp.h) for a basic element type: the    *)
(* block lst holds lstCap elements of which the first lstSz are the        *)
(* array's.  The block is a sequence of lstCap slots, slot idx of the      *)
(* code being lst[idx + 1] here; the empty sequence stands for NULL.       *)
(***************************************************************************)
MaxItems == 9
MaxAsk == 4
MinCap == 8
Junk == 0
Items == {1}
InitCaps == {0, 2, MinCap}
Percents == {5, 50, 300}
IdxTried == (0 - 1)..(MaxItems + 1)
ReserveTried == (0 - 1)..2

NoArray == [capIncPercent |-> 0, lst |-> <<>>, lstSz |-> 0, lstCap |-> 0]
NoArrOp == [op |-> "none", idx |-> 0, item |-> 0, exc |-> "none"]

\* realloc(lst, n * sizeof(ElemType)): the first min(old, n) elements are
\* kept, the others are not initialized
Realloc(lst, n) ==
  [i \in 1..n |-> IF i <= Len(lst) THEN lst[i] ELSE Junk]

\* Array<T>::ensureCapacity
EnsureCapacityOf(a, minCap) ==
  IF a.lstCap >= minCap THEN a
  ELSE [a EXCEPT !.lstCap = minCap, !.lst = Realloc(a.lst, minCap)]

\* Array<T>::Array(int initCap, int capIncrPercent)
ArrayOf(initCap, capIncrPercent) ==
  LET pct == IF capIncrPercent < 10 THEN 10
             ELSE IF capIncrPercent > 200 THEN 200 ELSE capIncrPercent
      a0  == [capIncPercent |-> pct, lst |-> <<>>, lstSz |-> 0, lstCap |-> 0]
  IN  IF initCap > 0 THEN EnsureCapacityOf(a0, initCap) ELSE a0

\* Array<T>::incCapacity
IncCapacityOf(a) ==
  LET grown  == a.lstCap + ((a.lstCap * a.capIncPercent) \div 100)
      newCap == IF grown < MinCap THEN MinCap ELSE grown
  IN  [a EXCEPT !.lstCap = newCap, !.lst = Realloc(a.lst, newCap)]

\* Array<T>::shrinkCapacity
ShrinkCapacityOf(a, reserveCapArg) ==
  LET reserveCap == IF reserveCapArg < 0 THEN 0 ELSE reserveCapArg
      newCap     == a.lstSz + reserveCap
  IN  IF newCap < 1
        THEN [a EXCEPT !.lst = <<>>, !.lstSz = 0, !.lstCap = 0]
      ELSE IF newCap = a.lstSz \/ newCap >= a.lstCap THEN a
      ELSE [a EXCEPT !.lstCap = newCap, !.lst = Realloc(a.lst, newCap)]

\* Array<T>::set: the outcomes of the call.  idx == lstSz passes the test
\* of line 754; the store then lands in the unused part of the block, or,
\* when the block is full or NULL, outside it, which the build may let
\* pass ("wild") or trap ("crash")
SetOf(a, idx, item) ==
  IF idx < 0 \/ idx > a.lstSz
    THEN {[a |-> a, exc |-> "IndexOutOfBounds"]}
  ELSE IF idx < a.lstCap
    THEN {[a |-> [a EXCEPT !.lst[idx + 1] = item], exc |-> "none"]}
  ELSE {[a |-> a, exc |-> "wild"], [a |-> a, exc |-> "crash"]}

\* Array<T>::insert: the outcomes of the call.  When the block is full
\* incCapacity runs first; memmove and the store of line 800 then reach
\* lst[lstSz], which lies past the end of the block if the capacity is
\* still lstSz: the build may let that pass ("overrun", the part of the
\* move and of the store that lies inside the block is done) or trap
\* ("crash")
InsertOf(a, idx, item) ==
  IF idx < 0 \/ idx > a.lstSz
    THEN {[a |-> a, exc |-> "IndexOutOfBounds"]}
  ELSE LET b == IF a.lstSz >= a.lstCap THEN IncCapacityOf(a) ELSE a
           moved == [i \in 1..b.lstCap |->
                       IF i > idx + 1 /\ i <= a.lstSz + 1 THEN b.lst[i - 1]
                       ELSE b.lst[i]]
           stored == [i \in 1..b.lstCap |->
                        IF i = idx + 1 THEN item ELSE moved[i]]
           done == [b EXCEPT !.lst = stored, !.lstSz = a.lstSz + 1]
       IN  IF a.lstSz < b.lstCap
             THEN {[a |-> done, exc |-> "none"]}
           ELSE {[a |-> done, exc |-> "overrun"], [a |-> b, exc |-> "crash"]}

\* ArrayFuncs::Func<T,TypeVal>::dupLst: a block of sz elements, copied
DupLst(lst, sz) == [i \in 1..sz |-> lst[i]]

\* Array<T>::Array(const Array& cp)
CopyOf(cp) ==
  [capIncPercent |-> cp.capIncPercent, lst |-> DupLst(cp.lst, cp.lstSz),
   lstSz |-> cp.lstSz, lstCap |-> cp.lstSz]

\* Array<T>::operator=: clear(), free(lst), then the copy of src's
\* elements; capIncPercent is kept
AssignOf(a, src) ==
  [a EXCEPT !.lst = DupLst(src.lst, src.lstSz), !.lstSz = src.lstSz,
            !.lstCap = src.lstSz]

\* Array<T>::remove
RemoveOf(a, idx) ==
  IF idx < 0 \/ idx >= a.lstSz
    THEN [a |-> a, exc |-> "IndexOutOfBounds"]
  ELSE LET newSz == a.lstSz - 1
           moved == [i \in 1..a.lstCap |->
                       IF i >= idx + 1 /\ i <= newSz THEN a.lst[i + 1]
                       ELSE a.lst[i]]
       IN  [a |-> [a EXCEPT !.lst = moved, !.lstSz = newSz], exc |-> "none"]

\* Array<T>::get
GetOf(a, idx) ==
  IF idx < 0 \/ idx >= a.lstSz
    THEN [val |-> 0, exc |-> "IndexOutOfBounds"]
  ELSE [val |-> a.lst[idx + 1], exc |-> "none"]

\* the Arrays assigned from: default-constructed, then 0, 1 or 2 add()
Sources ==
  {[capIncPercent |-> 50, lst |-> Realloc(c, MinCap), lstSz |-> Len(c),
    lstCap |-> MinCap] : c \in {<<>>, <<1>>, <<1, 1>>}}

ArrayInit ==
  /\ \E initCap \in InitCaps, pct \in Percents : arr = ArrayOf(initCap, pct)
  /\ alast = NoArrOp

\* an Array that crashed, or that wrote past its block, is not used again
ArrayUsable == alast.exc \notin {"crash", "overrun"}

ArrayAdd(item) ==
  /\ UNCHANGED exceptArray
  /\ ArrayUsable
  /\ arr.lstSz < MaxItems
  /\ \E o \in InsertOf(arr, arr.lstSz, item) :
       /\ arr' = o.a
       /\ alast' = [op |-> "add", idx |-> arr.lstSz, item |-> item,
                    exc |-> o.exc]

ArrayInsert(idx, item) ==
  /\ UNCHANGED exceptArray
  /\ ArrayUsable
  /\ arr.lstSz < MaxItems
  /\ \E o \in InsertOf(arr, idx, item) :
       /\ arr' = o.a
       /\ alast' = [op |-> "insert", idx |-> idx, item |-> item,
                    exc |-> o.exc]

ArraySet(idx, item) ==
  /\ UNCHANGED exceptArray
  /\ ArrayUsable
  /\ \E o \in SetOf(arr, idx, item) :
       /\ arr' = o.a
       /\ alast' = [op |-> "set", idx |-> idx, item |-> item, exc |-> o.exc]

ArrayRemove(idx) ==
  /\ UNCHANGED exceptArray
  /\ ArrayUsable
  /\ LET o == RemoveOf(arr, idx)
     IN  /\ arr' = o.a
         /\ alast' = [op |-> "remove", idx |-> idx, item |-> 0, exc |-> o.exc]

ArrayGet(idx) ==
  /\ UNCHANGED exceptArray
  /\ ArrayUsable
  /\ LET o == GetOf(arr, idx)
     IN  /\ arr' = arr
         /\ alast' = [op |-> "get", idx |-> idx, item |-> o.val, exc |-> o.exc]

\* Array<T>::clear (clearAll does nothing for a basic type)
ArrayClear ==
  /\ UNCHANGED exceptArray
  /\ ArrayUsable
  /\ arr' = [arr EXCEPT !.lstSz = 0]
  /\ alast' = [op |-> "clear", idx |-> 0, item |-> 0, exc |-> "none"]

ArrayEnsureCapacity(minCap) ==
  /\ UNCHANGED exceptArray
  /\ ArrayUsable
  /\ arr' = EnsureCapacityOf(arr, minCap)
  /\ alast' = [op |-> "ensure", idx |-> minCap, item |-> 0, exc |-> "none"]

\* the argument is kept in idx
ArrayShrinkCapacity(reserveCap) ==
  /\ UNCHANGED exceptArray
  /\ ArrayUsable
  /\ arr' = ShrinkCapacityOf(arr, reserveCap)
  /\ alast' = [op |-> "shrink", idx |-> reserveCap, item |-> 0, exc |-> "none"]

\* Array<T> b(a): the copy is the Array followed from here on
ArrayCopy ==
  /\ UNCHANGED exceptArray
  /\ ArrayUsable
  /\ arr' = CopyOf(arr)
  /\ alast' = [op |-> "copy", idx |-> 0, item |-> 0, exc |-> "none"]

\* a = src for another Array src, freshly filled
ArrayAssign(src) ==
  /\ UNCHANGED exceptArray
  /\ ArrayUsable
  /\ arr' = AssignOf(arr, src)
  /\ alast' = [op |-> "assign", idx |-> src.lstSz, item |-> 0, exc |-> "none"]

\* a = a: there is no test for &src == this, so src is the Array that
\* clear() has just emptied
ArrayAssignSelf ==
  /\ UNCHANGED exceptArray
  /\ ArrayUsable
  /\ arr' = AssignOf(arr, [arr EXCEPT !.lstSz = 0])
  /\ alast' = [op |-> "assignSelf", idx |-> 0, item |-> 0, exc |-> "none"]

ArrayNext ==
  \/ \E item \in Items : ArrayAdd(item)
  \/ \E idx \in IdxTried, item \in Items : ArrayInsert(idx, item)
  \/ \E idx \in IdxTried, item \in Items : ArraySet(idx, item)
  \/ \E idx \in IdxTried : ArrayRemove(idx)
  \/ \E idx \in IdxTried : ArrayGet(idx)
  \/ ArrayClear
  \/ \E minCap \in 0..MaxAsk : ArrayEnsureCapacity(minCap)
  \/ \E reserveCap \in ReserveTried : ArrayShrinkCapacity(reserveCap)
  \/ ArrayCopy
  \/ \E src \in Sources : ArrayAssign(src)
  \/ ArrayAssignSelf

(***************************************************************************)
(* UniFile's wildcard search (Basics/src/UniFile.cpp).  The object keeps   *)
(* the handle of _wfindfirst, the search mode and the user's filter.  The  *)
(* directory is the environment: a call of _wfindfirst fails or yields a   *)
(* sequence of entries, of which findInfo holds the current one and the    *)
(* handle the rest.  An entry is [sub, dot, ok]: it has _A_SUBDIR, its     *)
(* name is "." or "..", the user's filter accepts it.                      *)
(***************************************************************************)
MaxEntries == 2
MaxHandles == 2
NoHandle == 0 - 1
Handles == 0..(MaxHandles - 1)
FindModes == {"FindAll", "FindDirs", "FindFiles"}
Filters == {"NULL", "filter"}
Entries ==
  {[sub |-> TRUE, dot |-> TRUE, ok |-> FALSE]}
    \cup {[sub |-> sb, dot |-> FALSE, ok |-> k] : sb \in BOOLEAN, k \in BOOLEAN}

\* what _wfindfirst can yield; the empty sequence is its failure
Listings == UNION {[1..n -> Entries] : n \in 0..MaxEntries}

\* fndHdl(-1), fndMode(FindAll), srchFilter(NULL)
NoFind == [fndHdl |-> NoHandle, fndMode |-> "FindAll", srchFilter |-> "NULL"]
NoHandles == [open |-> {}, rest |-> <<>>]
NoFindOp == [op |-> "none", ret |-> FALSE, self |-> FALSE]
NoHist == [kind |-> "none", ret |-> FALSE, ended |-> FALSE, hits |-> 0]

\* the attribute and name tests of the three searches
Wanted(mode, e) ==
  CASE mode = "FindDirs"  -> e.sub /\ ~e.dot
    [] mode = "FindFiles" -> ~e.sub /\ ~e.dot
    [] OTHER              -> ~e.dot

\* !srchFilter || srchFilter->accept(f)
Accepted(filter, e) == filter = "NULL" \/ e.ok

\* UniFile::cancelFind
CancelFindOf(st) ==
  [u   |-> [fndHdl |-> NoHandle, fndMode |-> "FindAll", srchFilter |-> "NULL"],
   sys |-> [open |-> st.sys.open \ {st.u.fndHdl}, rest |-> <<>>]]

\* the result stored through the reference argument: operator= cancels the
\* find of the object assigned to, which is this object when self
StoreResult(st, self) == IF self THEN CancelFindOf(st) ELSE st

\* while (_wfindnext(fndHdl, &findInfo) == 0): the entries left after the
\* first one wanted and accepted, or none
RECURSIVE FindNextLoop(_, _, _)
FindNextLoop(rest, mode, filter) ==
  IF rest = <<>> THEN [found |-> FALSE, rest |-> <<>>]
  ELSE IF Wanted(mode, Head(rest)) /\ Accepted(filter, Head(rest))
    THEN [found |-> TRUE, rest |-> Tail(rest)]
  ELSE FindNextLoop(Tail(rest), mode, filter)

\* the test that opens findNextDir, findNextFile and findNext, without the
\* mode
NotSearchingAny(u, mode) == u.fndHdl < 0

\* the test that opens findNextDir, findNextFile and findNext
NotSearching(u, mode) == u.fndHdl < 0 \/ u.fndMode # mode

\* UniFile::findNextDir, findNextFile, findNext
FindNextOf(st, mode, self) ==
  IF NotSearching(st.u, mode) THEN [st |-> st, ret |-> FALSE]
  ELSE LET r == FindNextLoop(st.sys.rest, mode, st.u.srchFilter)
       IN  IF r.found
             THEN [st  |-> StoreResult([st EXCEPT !.sys.rest = r.rest], self),
                   ret |-> TRUE]
           ELSE [st |-> CancelFindOf(st), ret |-> FALSE]

\* UniFile::findFirstAny on a state with no handle: _wfindfirst
FindFirstAny(st, listing) ==
  LET free == Handles \ st.sys.open
  IN  IF listing = <<>> \/ free = {}
        THEN [st EXCEPT !.u.fndHdl = NoHandle]
      ELSE LET h == CHOOSE x \in free : \A y \in free : x <= y
           IN  [u   |-> [st.u EXCEPT !.fndHdl = h],
                sys |-> [open |-> st.sys.open \cup {h}, rest |-> Tail(listing)]]

\* UniFile::findFirstDir, findFirstFile and findFirst; findFirst alone
\* stores the filter before findFirstAny
FindFirstOf(st, mode, filter, listing, self) ==
  LET c  == CancelFindOf(st)
      s1 == [c EXCEPT !.u.fndMode = mode,
                      !.u.srchFilter = IF mode = "FindAll" THEN filter
                                       ELSE "NULL"]
      s2 == FindFirstAny(s1, listing)
      s3 == [s2 EXCEPT !.u.srchFilter = filter]
  IN  IF s2.u.fndHdl < 0 THEN [st |-> s2, ret |-> FALSE]
      ELSE IF Wanted(mode, Head(listing)) /\ Accepted(filter, Head(listing))
        THEN [st |-> StoreResult(s3, self), ret |-> TRUE]
      ELSE FindNextOf(s3, mode, self)

\* UniFile::getFileList, getDirList, getList: the handles open afterwards.
\* The find state is set aside and put back; the second pass stops after
\* listSz results and leaves its handle open, unless the directory lost
\* entries in between
ListLeaks(sys, found) ==
  LET free == Handles \ sys.open
  IN  IF found /\ free # {}
        THEN {sys, [sys EXCEPT !.open = @ \cup
                      {CHOOSE x \in free : \A y \in free : x <= y}]}
      ELSE {sys}

\* what the caller has seen after a findFirst call of kind
StartedHist(kind, ret, self) ==
  [kind |-> kind, ret |-> ret, ended |-> self /\ ret,
   hits |-> IF ret THEN 1 ELSE 0]

\* what the caller has seen after a findNext call of kind
ContinuedHist(h, kind, ret, self) ==
  IF ret THEN [h EXCEPT !.hits = @ + 1, !.ended = @ \/ self]
  ELSE IF h.kind = kind /\ h.ret THEN [h EXCEPT !.ended = TRUE]
  ELSE h

FindInit ==
  /\ uf = NoFind
  /\ fnd = NoHandles
  /\ ulast = NoFindOp
  /\ hist = NoHist

FindFirstDir(filter, listing, self) ==
  /\ UNCHANGED exceptFind
  /\ LET o == FindFirstOf([u |-> uf, sys |-> fnd], "FindDirs", filter,
                          listing, self)
     IN  /\ uf' = o.st.u
         /\ fnd' = o.st.sys
         /\ ulast' = [op |-> "findFirstDir", ret |-> o.ret, self |-> self]
         /\ hist' = StartedHist("FindDirs", o.ret, self)

FindNextDir(self) ==
  /\ UNCHANGED exceptFind
  /\ LET o == FindNextOf([u |-> uf, sys |-> fnd], "FindDirs", self)
     IN  /\ uf' = o.st.u
         /\ fnd' = o.st.sys
         /\ ulast' = [op |-> "findNextDir", ret |-> o.ret, self |-> self]
         /\ hist' = ContinuedHist(hist, "FindDirs", o.ret, self)

FindFirstFile(filter, listing, self) ==
  /\ UNCHANGED exceptFind
  /\ LET o == FindFirstOf([u |-> uf, sys |-> fnd], "FindFiles", filter,
                          listing, self)
     IN  /\ uf' = o.st.u
         /\ fnd' = o.st.sys
         /\ ulast' = [op |-> "findFirstFile", ret |-> o.ret, self |-> self]
         /\ hist' = StartedHist("FindFiles", o.ret, self)

FindNextFile(self) ==
  /\ UNCHANGED exceptFind
  /\ LET o == FindNextOf([u |-> uf, sys |-> fnd], "FindFiles", self)
     IN  /\ uf' = o.st.u
         /\ fnd' = o.st.sys
         /\ ulast' = [op |-> "findNextFile", ret |-> o.ret, self |-> self]
         /\ hist' = ContinuedHist(hist, "FindFiles", o.ret, self)

FindFirst(filter, listing, self) ==
  /\ UNCHANGED exceptFind
  /\ LET o == FindFirstOf([u |-> uf, sys |-> fnd], "FindAll", filter,
                          listing, self)
     IN  /\ uf' = o.st.u
         /\ fnd' = o.st.sys
         /\ ulast' = [op |-> "findFirst", ret |-> o.ret, self |-> self]
         /\ hist' = StartedHist("FindAll", o.ret, self)

FindNext(self) ==
  /\ UNCHANGED exceptFind
  /\ LET o == FindNextOf([u |-> uf, sys |-> fnd], "FindAll", self)
     IN  /\ uf' = o.st.u
         /\ fnd' = o.st.sys
         /\ ulast' = [op |-> "findNext", ret |-> o.ret, self |-> self]
         /\ hist' = ContinuedHist(hist, "FindAll", o.ret, self)

CancelFind ==
  /\ UNCHANGED exceptFind
  /\ LET c == CancelFindOf([u |-> uf, sys |-> fnd])
     IN  /\ uf' = c.u
         /\ fnd' = c.sys
  /\ ulast' = [op |-> "cancelFind", ret |-> FALSE, self |-> FALSE]
  /\ hist' = [hist EXCEPT !.ended = TRUE]

\* UniFile::operator= from another object
UniFileAssign ==
  /\ UNCHANGED exceptFind
  /\ LET c == CancelFindOf([u |-> uf, sys |-> fnd])
     IN  /\ uf' = c.u
         /\ fnd' = c.sys
  /\ ulast' = [op |-> "assign", ret |-> FALSE, self |-> FALSE]
  /\ hist' = [hist EXCEPT !.ended = TRUE]

GetFileList(found) ==
  /\ UNCHANGED exceptFind
  /\ uf' = uf
  /\ fnd' \in ListLeaks(fnd, found)
  /\ ulast' = [op |-> "getFileList", ret |-> found, self |-> FALSE]
  /\ hist' = hist

GetDirList(found) ==
  /\ UNCHANGED exceptFind
  /\ uf' = uf
  /\ fnd' \in ListLeaks(fnd, found)
  /\ ulast' = [op |-> "getDirList", ret |-> found, self |-> FALSE]
  /\ hist' = hist

GetList(found) ==
  /\ UNCHANGED exceptFind
  /\ uf' = uf
  /\ fnd' \in ListLeaks(fnd, found)
  /\ ulast' = [op |-> "getList", ret |-> found, self |-> FALSE]
  /\ hist' = hist

FindStep ==
  \/ \E f \in Filters, l \in Listings, self \in BOOLEAN : FindFirstDir(f, l, self)
  \/ \E self \in BOOLEAN : FindNextDir(self)
  \/ \E f \in Filters, l \in Listings, self \in BOOLEAN : FindFirstFile(f, l, self)
  \/ \E self \in BOOLEAN : FindNextFile(self)
  \/ \E f \in Filters, l \in Listings, self \in BOOLEAN : FindFirst(f, l, self)
  \/ \E self \in BOOLEAN : FindNext(self)
  \/ CancelFind
  \/ UniFileAssign
  \/ \E found \in BOOLEAN : GetFileList(found)
  \/ \E found \in BOOLEAN : GetDirList(found)
  \/ \E found \in BOOLEAN : GetList(found)

(***************************************************************************)
(* UniFile's path methods (Basics/src/UniFile.cpp): getParent and          *)
(* getExeDir.  A path is [abs, comps]: whether it starts at the root, and  *)
(* its names; no names and not absolute is the empty path (pathStr NULL    *)
(* or pathStrSz < 1), no names and absolute is the root directory.         *)
(***************************************************************************)
MaxDepth == 2
Names == {"a", "b"}
NoPath == [abs |-> FALSE, comps |-> <<>>]
NameSeqs == UNION {[1..n -> Names] : n \in 0..MaxDepth}
AbsPaths == {[abs |-> TRUE, comps |-> c] : c \in NameSeqs}
RelPaths == {[abs |-> FALSE, comps |-> c] : c \in NameSeqs \ {<<>>}}
Paths == AbsPaths \cup RelPaths \cup {NoPath}
\* what GetCurrentDirectoryW yields: a directory, or nothing (NoPath)
Cwds == {q \in AbsPaths : Len(q.comps) < MaxDepth} \cup {NoPath}
\* what GetModuleFileNameW yields: the path of a file, or nothing (NoPath)
ExePaths == {q \in AbsPaths : Len(q.comps) >= 1} \cup {NoPath}
NoExeOp == [op |-> "none", ret |-> FALSE, exe |-> NoPath, pre |-> NoPath]

Front(c) == SubSeq(c, 1, Len(c) - 1)

\* UniFile::init: an empty path becomes the current directory
InitPath(q, cwd) == IF q = NoPath THEN cwd ELSE q

\* UniFile::getAbsoluteFile: _wfullpath, which may fail
AbsoluteOf(q, cwd, ok) ==
  IF ~ok THEN NoPath
  ELSE IF q.abs THEN q
  ELSE [abs |-> TRUE, comps |-> cwd.comps \o q.comps]

\* UniFile::getParent(UniFile& parent) const on self: the result, the path
\* left in self by init, and the path stored in parent (NoPath: none stored)
RECURSIVE GetParentOf(_, _, _)
GetParentOf(self, cwd, ok) ==
  LET q == InitPath(self, cwd)
  IN  IF q = NoPath THEN [ret |-> FALSE, self |-> q, parent |-> NoPath]
      ELSE IF q.abs /\ Len(q.comps) = 0
        THEN [ret |-> FALSE, self |-> q, parent |-> NoPath]
      ELSE IF q.abs /\ Len(q.comps) = 1
        THEN [ret |-> TRUE, self |-> q, parent |-> [abs |-> TRUE, comps |-> <<>>]]
      ELSE IF Len(q.comps) = 1
        THEN LET up == GetParentOf(AbsoluteOf(q, cwd, ok), cwd, ok)
             IN  [ret |-> up.ret, self |-> q, parent |-> up.parent]
      ELSE [ret |-> TRUE, self |-> q,
            parent |-> [abs |-> q.abs, comps |-> Front(q.comps)]]

\* UniFile::getExeDir: exeDir.getParent(exeFile) computes the parent of
\* exeDir and stores it in the local exeFile
GetExeDirOf(dir, exe, cwd, ok) ==
  IF exe = NoPath THEN [ret |-> FALSE, exeDir |-> dir]
  ELSE LET g == GetParentOf(dir, cwd, ok)
       IN  [ret |-> g.ret, exeDir |-> g.self]

ExeInit ==
  /\ exeDir = NoPath
  /\ elast = NoExeOp

\* UniFile::UniFile(const wchar_t *path) and operator=
UniFileSetPath(q) ==
  /\ UNCHANGED exceptExe
  /\ exeDir' = q
  /\ elast' = [op |-> "set", ret |-> TRUE, exe |-> NoPath, pre |-> exeDir]

\* UniFile::getParent(): getParent(*this)
UniFileGetParent(cwd, ok) ==
  /\ UNCHANGED exceptExe
  /\ LET g == GetParentOf(exeDir, cwd, ok)
     IN  /\ exeDir' = IF g.ret THEN g.parent ELSE g.self
         /\ elast' = [op |-> "getParent", ret |-> g.ret, exe |-> NoPath,
                      pre |-> exeDir]

GetExeDir(exe, cwd, ok) ==
  /\ UNCHANGED exceptExe
  /\ LET g == GetExeDirOf(exeDir, exe, cwd, ok)
     IN  /\ exeDir' = g.exeDir
         /\ elast' = [op |-> "getExeDir", ret |-> g.ret, exe |-> exe,
                      pre |-> exeDir]

ExeNext ==
  \/ \E q \in Paths : UniFileSetPath(q)
  \/ \E cwd \in Cwds, ok \in BOOLEAN : UniFileGetParent(cwd, ok)
  \/ \E exe \in ExePaths, cwd \in Cwds, ok \in BOOLEAN : GetExeDir(exe, cwd, ok)

(***************************************************************************)
(* Matrix::solveLDLT step by step.  fs holds the call in progress: the     *)
(* overload, the matrix buffer el, lwbIdx[], r[], the right-hand side (n   *)
(* columns, a Vector being one column) and the position pc, i, j, dd.      *)
(* One step is the call's entry, the diagonal loop of row i, one column j  *)
(* of its off-diagonal loop, the end of row i, or one of the three         *)
(* substitution loops.  fg records the accesses the last step made, each   *)
(* as [arr, a, b]: mat[a][b], lwbIdx[a], r[a], rhs[a] or rhs(a, b).        *)
(***************************************************************************)
Mat(a, b) == [arr |-> "mat", a |-> a, b |-> b]
Lwb(a) == [arr |-> "lwb", a |-> a, b |-> 0]
Cache(a) == [arr |-> "r", a |-> a, b |-> 0]
RhsRow(n, a) == {[arr |-> "rhs", a |-> a, b |-> k] : k \in 0..(n - 1)}

NoStep == [acc |-> {}, reads |-> {}, wrote |-> <<>>]
NoFactor ==
  [which |-> "none", rws |-> 0, cls |-> 0, el |-> <<>>, lwb |-> <<>>,
   r |-> <<>>, rhs |-> <<>>, rhsRws |-> 0, n |-> 0, pc |-> "none",
   i |-> 0, j |-> 0, dd |-> Uninit]

\* the factorization state the loops of either overload work on
StOf(f) == [el |-> f.el, lwb |-> f.lwb, r |-> f.r]

\* lines 446-455 (542-551): what the diagonal loop of row i touches
DiagAccesses(f) ==
  {Mat(f.i, 0), Lwb(f.i)}
    \cup UNION {{Mat(j, f.i - j), Mat(j, 0), Cache(j)} :
                  j \in f.lwb[f.i]..(f.i - 1)}

\* lines 460-473 (556-566): what column j of the off-diagonal loop touches
OffDiagAccesses(f) ==
  {Mat(f.i, f.j - f.i), Lwb(f.i), Lwb(f.j)}
    \cup UNION {{Mat(k, f.j - k), Cache(k)} :
                  k \in Max(f.lwb[f.i], f.lwb[f.j])..(f.i - 1)}

\* lines 477-479 (572-578): what the forward substitution touches
ForwardAccesses(f) ==
  UNION {{Lwb(i)} \cup UNION {{Mat(j, i - j)} \cup RhsRow(f.n, i)
                                \cup RhsRow(f.n, j) : j \in f.lwb[i]..(i - 1)} :
           i \in 0..(f.rws - 1)}

\* line 481 (580-583): what the scaling touches
ScaleAccesses(f) ==
  UNION {{Mat(i, 0)} \cup RhsRow(f.n, i) : i \in 0..(f.rws - 1)}

\* lines 483-487 (585-593): what the back substitution touches
BackAccesses(f) ==
  UNION {UNION {{Mat(i, j - i)} \cup RhsRow(f.n, i) \cup RhsRow(f.n, j) :
                  j \in (i + 1)..(Min(i + f.cls, f.rws) - 1)} :
           i \in 0..(f.rws - 1)}

\* the calls followed step by step: a banded matrix of up to MaxFacRows
\* rows with a Vector and with a two-column Matrix, conforming or one row
\* short
MaxFacRows == 4
FacOffVals == {0, 1}

FacInit ==
  /\ \E r \in 1..MaxFacRows, c \in 1..MaxFacRows :
       \E diag \in [0..(r - 1) -> DiagVals], off \in [BandIdx(r, c) -> FacOffVals],
          which \in {"vector", "matrix"}, n \in {r, r - 1} :
         fs = [NoFactor EXCEPT
                 !.which = which, !.rws = r, !.cls = c,
                 !.el = Coef(r, c, diag, off, 0).el,
                 !.rhs = IF which = "vector" THEN Ramp(n, 1)
                         ELSE TwoColumns(n, Ramp(n, 1), Ramp(n, 4)).el,
                 !.rhsRws = n,
                 !.n = IF which = "vector" THEN 1 ELSE 2,
                 !.pc = "call"]
  /\ fg = NoStep

\* lines 420-441 (518-539): the checks, the scratch arrays, lwbIdx[]
FacEnter ==
  /\ UNCHANGED exceptFac
  /\ fs.pc = "call"
  /\ IF fs.rws < fs.cls \/ fs.rhsRws # fs.rws
       THEN /\ fs' = [fs EXCEPT !.pc = "thrown"]
            /\ fg' = NoStep
     ELSE /\ fs' = [fs EXCEPT
                      !.lwb = IF fs.which = "vector" THEN InitLwb(fs.rws, fs.cls)
                              ELSE InitLwbM(fs.rws, fs.cls),
                      !.r = [k \in 0..(fs.rws - 1) |-> Uninit],
                      !.pc = "diag", !.i = 0]
          /\ fg' = [acc |-> {Lwb(k) : k \in 0..(fs.rws - 1)}, reads |-> {},
                    wrote |-> [k \in 0..(fs.rws - 1) |-> 0 - 1]]

\* lines 446-455 (542-551): dd and the r[j] of row i, mat[i][0] = dd
FacDiag ==
  /\ UNCHANGED exceptFac
  /\ fs.pc = "diag"
  /\ LET d == IF fs.which = "vector"
                THEN DiagLoop(StOf(fs), fs.cls, fs.i, fs.lwb[fs.i],
                              fs.el[fs.i * fs.cls])
              ELSE DiagLoopM(StOf(fs), fs.cls, fs.i, fs.lwb[fs.i],
                             fs.el[fs.i * fs.cls])
     IN  /\ fs' = [fs EXCEPT !.el = [d.st.el EXCEPT ![fs.i * fs.cls] = d.dd],
                             !.r = d.st.r, !.dd = d.dd,
                             !.pc = "off", !.j = fs.i + 1]
         /\ fg' = [acc |-> DiagAccesses(fs), reads |-> {},
                   wrote |-> [k \in 0..(fs.rws - 1) |->
                                IF k >= fs.lwb[fs.i] /\ k < fs.i THEN fs.i
                                ELSE fg.wrote[k]]]

\* lines 460-473 (556-566): column j of row i
FacOffDiag ==
  /\ UNCHANGED exceptFac
  /\ fs.pc = "off"
  /\ fs.j < Min(fs.i + fs.cls, fs.rws)
  /\ LET st == IF fs.which = "vector"
                 THEN OffDiagLoop(StOf(fs), fs.cls, fs.i, fs.j, fs.j + 1, fs.dd)
               ELSE OffDiagLoopM(StOf(fs), fs.cls, fs.i, fs.j, fs.j + 1, fs.dd)
     IN  /\ fs' = [fs EXCEPT !.el = st.el, !.lwb = st.lwb, !.j = fs.j + 1]
         /\ fg' = [acc |-> OffDiagAccesses(fs),
                   reads |-> {[k |-> k, val |-> fs.r[k], row |-> fg.wrote[k]] :
                                k \in Max(fs.lwb[fs.i], fs.lwb[fs.j])..(fs.i - 1)},
                   wrote |-> fg.wrote]

\* lines 445, 459 (541, 555): j reached upb, ++i
FacNextRow ==
  /\ UNCHANGED exceptFac
  /\ fs.pc = "off"
  /\ fs.j >= Min(fs.i + fs.cls, fs.rws)
  /\ fs' = [fs EXCEPT !.i = fs.i + 1,
                      !.pc = IF fs.i + 1 < fs.rws THEN "diag" ELSE "forward"]
  /\ fg' = [fg EXCEPT !.acc = {}, !.reads = {}]

\* lines 477-479 (572-578)
FacForward ==
  /\ UNCHANGED exceptFac
  /\ fs.pc = "forward"
  /\ fs' = [fs EXCEPT
              !.rhs = IF fs.which = "vector"
                        THEN Forward(fs.rhs, StOf(fs), fs.rws, fs.cls, 0)
                      ELSE ForwardM(fs.rhs, fs.n, StOf(fs), fs.rws, fs.cls, 0),
              !.pc = "scale"]
  /\ fg' = [fg EXCEPT !.acc = ForwardAccesses(fs), !.reads = {}]

\* line 481 (580-583)
FacScale ==
  /\ UNCHANGED exceptFac
  /\ fs.pc = "scale"
  /\ fs' = [fs EXCEPT
              !.rhs = IF fs.which = "vector"
                        THEN Scale(fs.rhs, fs.el, fs.rws, fs.cls, 0)
                      ELSE ScaleM(fs.rhs, fs.n, fs.el, fs.rws, fs.cls, 0),
              !.pc = "back"]
  /\ fg' = [fg EXCEPT !.acc = ScaleAccesses(fs), !.reads = {}]

\* lines 483-487 (585-593)
FacBack ==
  /\ UNCHANGED exceptFac
  /\ fs.pc = "back"
  /\ fs' = [fs EXCEPT
              !.rhs = IF fs.which = "vector"
                        THEN Back(fs.rhs, fs.el, fs.rws, fs.cls, fs.rws - 1)
                      ELSE BackM(fs.rhs, fs.n, fs.el, fs.rws, fs.cls, fs.rws - 1),
              !.pc = "done"]
  /\ fg' = [fg EXCEPT !.acc = BackAccesses(fs), !.reads = {}]

FacNext ==
  \/ FacEnter
  \/ FacDiag
  \/ FacOffDiag
  \/ FacNextRow
  \/ FacForward
  \/ FacScale
  \/ FacBack

(***************************************************************************)
(* The specifications: one per component, the other components idle.       *)
(***************************************************************************)
VecIdle == vecs = [s \in VecSlots |-> NoVector] /\ vlast = NoVecOp
MatIdle == mats = [s \in MatSlots |-> NoMatrix] /\ mlast = NoMatOp
HeapIdle == HeapInit
ProdIdle ==
  /\ ops = <<NoMatrix, NoMatrix, NoMatrix>>
  /\ ops0 = ops
  /\ plast = NoProdOp
ScratchIdle == ScratchInit
ArrIdle == arr = NoArray /\ alast = NoArrOp
FindIdle == FindInit
ExeIdle == ExeInit
FacIdle == fs = NoFactor /\ fg = NoStep
SolveIdle ==
  /\ A = NoMatrix
  /\ rhs = VecRhs(NoVector)
  /\ A0 = NoMatrix
  /\ rhs0 = VecRhs(NoVector)
  /\ outcome = NoCall

\* the solver
Init ==
  /\ SolveInit
  /\ VecIdle
  /\ MatIdle
  /\ HeapIdle
  /\ ProdIdle
  /\ ScratchIdle
  /\ ArrIdle
  /\ FindIdle
  /\ ExeIdle
  /\ FacIdle
Next == SolveNext
Spec == Init /\ [][Next]_vars

\* Vector objects
InitVector ==
  /\ VecInit
  /\ MatIdle
  /\ SolveIdle
  /\ HeapIdle
  /\ ProdIdle
  /\ ScratchIdle
  /\ ArrIdle
  /\ FindIdle
  /\ ExeIdle
  /\ FacIdle
NextVector == VecNext
SpecVector == InitVector /\ [][NextVector]_vars

\* Matrix objects
InitMatrix ==
  /\ MatInit
  /\ VecIdle
  /\ SolveIdle
  /\ HeapIdle
  /\ ProdIdle
  /\ ScratchIdle
  /\ ArrIdle
  /\ FindIdle
  /\ ExeIdle
  /\ FacIdle
NextMatrix == MatNext
SpecMatrix == InitMatrix /\ [][NextMatrix]_vars

\* Vector and Matrix objects in the free store
InitHeap ==
  /\ HeapInit
  /\ VecIdle
  /\ MatIdle
  /\ SolveIdle
  /\ ProdIdle
  /\ ScratchIdle
  /\ ArrIdle
  /\ FindIdle
  /\ ExeIdle
  /\ FacIdle
NextHeap == HeapNext
SpecHeap == InitHeap /\ [][NextHeap]_vars

\* callers of transpose and multiply
InitProd ==
  /\ ProdInit
  /\ VecIdle
  /\ MatIdle
  /\ SolveIdle
  /\ HeapIdle
  /\ ScratchIdle
  /\ ArrIdle
  /\ FindIdle
  /\ ExeIdle
  /\ FacIdle
NextProd == ProdNext
SpecProd == InitProd /\ [][NextProd]_vars

\* the scratch buffers of the solver
InitScratch ==
  /\ ScratchInit
  /\ VecIdle
  /\ MatIdle
  /\ SolveIdle
  /\ HeapIdle
  /\ ProdIdle
  /\ ArrIdle
  /\ FindIdle
  /\ ExeIdle
  /\ FacIdle
NextScratch == ScratchNext
SpecScratch == InitScratch /\ [][NextScratch]_vars

\* an Array<int> and its callers
InitArray ==
  /\ ArrayInit
  /\ VecIdle
  /\ MatIdle
  /\ SolveIdle
  /\ HeapIdle
  /\ ProdIdle
  /\ ScratchIdle
  /\ FindIdle
  /\ ExeIdle
  /\ FacIdle
NextArray == ArrayNext
SpecArray == InitArray /\ [][NextArray]_vars

\* a UniFile object and its callers
InitFind ==
  /\ FindInit
  /\ VecIdle
  /\ MatIdle
  /\ SolveIdle
  /\ HeapIdle
  /\ ProdIdle
  /\ ScratchIdle
  /\ ArrIdle
  /\ ExeIdle
  /\ FacIdle
NextFind == FindStep
SpecFind == InitFind /\ [][NextFind]_vars

\* a UniFile's path and the callers of getParent and getExeDir
InitExe ==
  /\ ExeInit
  /\ VecIdle
  /\ MatIdle
  /\ SolveIdle
  /\ HeapIdle
  /\ ProdIdle
  /\ ScratchIdle
  /\ ArrIdle
  /\ FindIdle
  /\ FacIdle
NextExe == ExeNext
SpecExe == InitExe /\ [][NextExe]_vars

\* solveLDLT step by step
InitFactor ==
  /\ FacInit
  /\ VecIdle
  /\ MatIdle
  /\ SolveIdle
  /\ HeapIdle
  /\ ProdIdle
  /\ ScratchIdle
  /\ ArrIdle
  /\ FindIdle
  /\ ExeIdle
NextFactor == FacNext
SpecFactor == InitFactor /\ [][NextFactor]_vars

(***************************************************************************)
(* Properties of Vector (specification SpecVector).                        *)
(***************************************************************************)
\* the step just taken is a setSize call that returned normally
SetSizeReturned == vlast'.op = "setSize" /\ vlast'.exc = "none"

C8_Hysteresis ==
  [][SetSizeReturned =>
       LET old == vecs[vlast'.tgt]
           new == vecs'[vlast'.tgt]
           n == vlast'.newSz
       IN  IF old.cap \div 2 <= n /\ n <= old.cap
             THEN /\ new.cap = old.cap
                  /\ DOMAIN new.va = DOMAIN old.va
                  /\ new.sz = n
                  /\ \A i \in 0..(Min(old.sz, n) - 1) : new.va[i] = old.va[i]
             ELSE /\ new.cap = n
                  /\ new.sz = n
                  /\ DOMAIN new.va = 0..(n - 1)]_vars

\* a setSize with preserve = false that shrank inside the window and kept
\* the capacity and the first entry
C8_Witness ==
  /\ vlast.op = "setSize" /\ vlast.exc = "none" /\ ~vlast.preserve
  /\ vlast.newSz < vlast.preSz /\ vlast.newSz >= 1
  /\ vecs[vlast.tgt].cap = vlast.preCap
  /\ vecs[vlast.tgt].sz = vlast.newSz
  /\ vecs[vlast.tgt].va[0] = 1

\* C9: after any sequence of construction, copy, assignment and setSize
\* calls (rejected ones included) every Vector has 0 <= size <= capacity.
C9_SizeWithinCapacity ==
  \A s \in VecSlots :
    vecs[s].live =>
      /\ 0 <= vecs[s].sz
      /\ vecs[s].sz <= vecs[s].cap
      /\ DOMAIN vecs[s].va = 0..(vecs[s].cap - 1)

\* a setSize call was rejected while a vector holds fewer entries than its
\* capacity and the other is a copy
C9_Witness ==
  /\ vlast.op = "setSize" /\ vlast.exc = "IllegalArgument"
  /\ vecs[vlast.tgt].sz < vecs[vlast.tgt].cap
  /\ \E s \in VecSlots : s # vlast.tgt /\ vecs[s].live /\ vecs[s].sz >= 1

(***************************************************************************)
(* Properties of Matrix (specification SpecMatrix).                        *)
(***************************************************************************)
\* C10: every Matrix reachable through the public operations has rows >= 1
\* and cols >= 1; a request for a zero or negative dimension is rejected
\* with invalid-argument and never produces a matrix.
C10_DimensionsAtLeastOne ==
  \A s \in MatSlots : mats[s].live => mats[s].rws >= 1 /\ mats[s].cls >= 1

\* C16: row(r) with r outside [0, rows) is rejected with
\* index-out-of-range instead of returning a row view.
C16_RowChecked ==
  (mlast.op = "row" /\ (mlast.r < 0 \/ mlast.r >= mats[mlast.tgt].rws)) =>
    mlast.exc = "IndexOutOfBounds"

(***************************************************************************)
(* Properties of solveLDLT (specification Spec).                           *)
(***************************************************************************)
\* the determinant of the rows i.. of the full matrix restricted to the
\* columns cols (a sequence), by expansion along row i; entries are integers
RECURSIVE DetFrom(_, _, _)
DetFrom(m, i, cols) ==
  IF Len(cols) = 0 THEN 1
  ELSE LET term(p) ==
             (IF p % 2 = 1 THEN 1 ELSE -1) * Full(m, i, cols[p])[1]
               * DetFrom(m, i + 1, SubSeq(cols, 1, p - 1) \o SubSeq(cols, p + 1, Len(cols)))
           sum[p \in 0..Len(cols)] == IF p = 0 THEN 0 ELSE sum[p - 1] + term(p)
       IN  sum[Len(cols)]

\* the k-th leading principal minor of the full matrix
LeadingMinor(m, k) ==
  DetFrom([m EXCEPT !.rws = k], 0, [p \in 1..k |-> p - 1])

\* symmetric positive definite, by Sylvester's criterion
SPD(m) == \A k \in 1..m.rws : LeadingMinor(m, k) > 0

\* the 0-based buffer holding the elements of a sequence
Buf(seq) == [i \in 0..(Len(seq) - 1) |-> seq[i + 1]]

\* the stored rows [[4,1],[4,1],[4,0]]
Tridiag == Buf(<<Q(4), Q(1), Q(4), Q(1), Q(4), Q(0)>>)

\* |n/d - k/10000| <= 1/20000
RoundsTo(q, k) == Abs(20000 * q[1] - 2 * k * q[2]) <= q[2]

\* column c of a right-hand-side matrix
Column(b, c) == [i \in 0..(b.rws - 1) |-> b.el[i * b.cls + c]]

SolvedVector == Solved /\ outcome.call = "vector"
SolvedMatrix == Solved /\ outcome.call = "matrix"

\* C1: for a symmetric positive-definite banded A and a vector x, if
\* rhs = A_full * x then after A.solveLDLT(rhs) the vector rhs equals x
\* (exact arithmetic).
C1_RecoversSolution ==
  (SolvedVector /\ SPD(A0)) =>
    \A x \in Solutions(A0.rws) :
      FullMul(A0, x) = rhs0.v.va => rhs.v.va = x

\* a 3x3 system of bandwidth 3 with no zero in the band, solved for
\* x = (1, -1, 1)
C1_Witness ==
  /\ SolvedVector
  /\ SPD(A0)
  /\ A0.rws = 3 /\ A0.cls = 3
  /\ \A p \in BandIdx(3, 3) : A0.el[p[1] * 3 + p[2]] # Q(0)
  /\ rhs0.v.va = FullMul(A0, Buf(<<Q(1), Q(-1), Q(1)>>))
  /\ rhs.v.va = Buf(<<Q(1), Q(-1), Q(1)>>)

\* the number of rows of a right-hand side
RhsRows(b) == IF b.kind = "vec" THEN b.v.sz ELSE b.b.rws

\* C2: both overloads, called with rows < cols or with a right-hand side
\* whose row count differs from rows, raise invalid-argument and leave the
\* matrix and the right-hand side as they were.
C2_RejectsUnchanged ==
  (outcome.call # "none" /\ (A0.rws < A0.cls \/ RhsRows(rhs0) # A0.rws)) =>
    /\ outcome.exc = "IllegalArgument"
    /\ A = A0
    /\ rhs = rhs0

\* the Vector overload rejected a matrix with fewer rows than columns whose
\* first pivot is not 1 and whose band is not empty
C2_Witness ==
  /\ outcome.call = "vector"
  /\ outcome.exc = "IllegalArgument"
  /\ A0.rws = 2 /\ A0.cls = 3
  /\ A0.el[0] = Q(4) /\ A0.el[1] = Q(1)
  /\ rhs0.v.sz = 2

\* C3: solveLDLT(B) leaves in each column c of B the vector that
\* solveLDLT(Vector) leaves for column c of B, and both leave the same
\* factors in the coefficient matrix.
C3_ColumnsAsVectors ==
  SolvedMatrix =>
    \A c \in 0..(rhs0.b.cls - 1) :
      LET one == SolveLDLTVector(A0, VectorOf(Column(rhs0.b, c), A0.rws))
      IN  /\ one.exc = "none"
          /\ one.v.va = Column(rhs.b, c)
          /\ one.m = A

\* the columns (1,2,3) and (4,5,6) solved with the tridiagonal matrix of C4
C3_Witness ==
  /\ SolvedMatrix
  /\ A0.rws = 3 /\ A0.cls = 2
  /\ A0.el = Tridiag
  /\ rhs0.b.cls = 2
  /\ Column(rhs0.b, 0) = Ramp(3, 1)
  /\ Column(rhs0.b, 1) = Ramp(3, 4)
  /\ Column(rhs.b, 0) # Column(rhs.b, 1)

\* the call of C4: stored rows [[4,1],[4,1],[4,0]], rhs = [1,2,3]
TridiagSolved ==
  /\ SolvedVector
  /\ A0.rws = 3 /\ A0.cls = 2 /\ A0.el = Tridiag
  /\ rhs0.v.va = Ramp(3, 1)

\* C4: for the stored rows [[4,1],[4,1],[4,0]] and rhs = [1,2,3], solveLDLT
\* leaves rhs = (5/28, 2/7, 19/28), the solution of the dense system
\* [[4,1,0],[1,4,1],[0,1,4]] x = [1,2,3], which is [0.1786, 0.2857, 0.6786]
\* to four decimals.

C4_Tridiagonal ==
  TridiagSolved =>
    /\ rhs.v.va = Buf(<<<<5, 28>>, <<2, 7>>, <<19, 28>>>>)
    /\ FullMul(A0, rhs.v.va) = rhs0.v.va
    /\ RoundsTo(rhs.v.va[0], 1786)
    /\ RoundsTo(rhs.v.va[1], 2857)
    /\ RoundsTo(rhs.v.va[2], 6786)

C4_Witness ==
  /\ TridiagSolved
  /\ rhs.v.va[2] = <<19, 28>>
  /\ A.el[4] = <<56, 15>>

\* C4 as stated: the call leaves rhs at [0.0714, 0.7143, 0.6071] to four
\* decimals.
C4_AsStated ==
  TridiagSolved =>
    /\ RoundsTo(rhs.v.va[0], 714)
    /\ RoundsTo(rhs.v.va[1], 7143)
    /\ RoundsTo(rhs.v.va[2], 6071)

\* D[i] and L[a][p] (a >= p) read from the storage after the call
FactorD(m, i) == m.el[i * m.cls]
FactorL(m, a, p) ==
  IF a = p THEN Q(1)
  ELSE IF a - p < m.cls THEN m.el[p * m.cls + (a - p)] ELSE Q(0)

\* entry (i, j), i <= j, of L*D*L^T: sum over p <= i of L[i][p]*D[p]*L[j][p]
RECURSIVE LDLt(_, _, _, _)
LDLt(m, i, j, p) ==
  IF p > i THEN Q(0)
  ELSE Add(Mul(Mul(FactorL(m, i, p), FactorD(m, p)), FactorL(m, j, p)),
           LDLt(m, i, j, p + 1))

AllFinite(buf) == \A x \in DOMAIN buf : IsFinite(buf[x])

\* the call returned normally and every pivot D[i] is a nonzero number
Factorized ==
  /\ Solved
  /\ AllFinite(A.el)
  /\ \A i \in 0..(A.rws - 1) : FactorD(A, i) # Q(0)

\* the right-hand side after the call solves the original system
SolvesOriginal ==
  IF rhs.kind = "vec"
    THEN FullMul(A0, [i \in 0..(A0.rws - 1) |-> rhs.v.va[i]])
           = [i \in 0..(A0.rws - 1) |-> rhs0.v.va[i]]
    ELSE \A c \in 0..(rhs0.b.cls - 1) :
           FullMul(A0, Column(rhs.b, c)) = Column(rhs0.b, c)

\* C5: on return from a successful solveLDLT, column 0 of row i holds D[i]
\* and column k holds L[i+k][i], with L*D*L^T equal to the original matrix
\* on every band entry, and the right-hand side holds the solution.
C5_FactorsInPlace ==
  Factorized =>
    /\ \A i \in 0..(A0.rws - 1) : \A k \in 0..(A0.cls - 1) :
         i + k < A0.rws => LDLt(A, i, i + k, 0) = A0.el[i * A0.cls + k]
    /\ SolvesOriginal

\* a 3x3 matrix of bandwidth 3 factorized with every multiplier nonzero and
\* a pivot that is not an input entry
C5_Witness ==
  /\ Factorized
  /\ A0.rws = 3 /\ A0.cls = 3
  /\ \A p \in BandIdx(3, 3) : A.el[p[1] * 3 + p[2]] # Q(0)
  /\ A.el[6] # A0.el[6]
  /\ A.el[6][2] # 1

\* C6: with cols = 1 solveLDLT sets every rhs[i] to rhs[i] / A[i][0], does
\* nothing else to rhs, and leaves every A[i][0] unchanged.
C6_DiagonalOnly ==
  (SolvedVector /\ A0.cls = 1) =>
    /\ A = A0
    /\ rhs.v.sz = rhs0.v.sz /\ rhs.v.cap = rhs0.v.cap
    /\ \A i \in DOMAIN rhs0.v.va :
         rhs.v.va[i] = IF i < A0.rws THEN Div(rhs0.v.va[i], A0.el[i])
                                     ELSE rhs0.v.va[i]

\* a diagonal system with diagonal (1, 4, 4) and rhs (1, 2, 3)
C6_Witness ==
  /\ SolvedVector /\ A0.cls = 1 /\ A0.rws = 3
  /\ A0.el = Buf(<<Q(1), Q(4), Q(4)>>)
  /\ rhs.v.va = Buf(<<<<1, 1>>, <<1, 2>>, <<3, 4>>>>)

(***************************************************************************)
(* Properties of the scratch buffers (specification SpecScratch).          *)
(***************************************************************************)
\* C17: every scratch buffer acquired by a solveLDLT call is released
\* before the call returns or propagates an error, for every number of
\* rows on both sides of the 4000-row threshold: after any sequence of
\* calls no scratch buffer remains allocated.
C17_ScratchReleased == scratch = {}

(***************************************************************************)
(* Properties of copies (specification SpecHeap).                          *)
(***************************************************************************)
\* what an object's holder can observe: its dimensions and its entries,
\* read through its pointer
View(h, o) ==
  IF o.kind = "none" THEN <<"none">>
  ELSE LET n == IF IsVector(o) THEN o.sz ELSE o.rws * o.cls
       IN  IF o.ptr \in Addrs /\ h[o.ptr].used
                /\ (0..(n - 1)) \subseteq DOMAIN h[o.ptr].data
             THEN <<o.kind, o.sz, o.rws, o.cls,
                    [i \in 0..(n - 1) |-> h[o.ptr].data[i]]>>
             ELSE <<"dangling">>

\* no two objects hold the same buffer, and every buffer held is allocated
Unshared ==
  \A s \in ObjSlots : objs[s].kind # "none" =>
    /\ objs[s].ptr \in Addrs /\ heap[objs[s].ptr].used
    /\ \A t \in ObjSlots \ {s} :
         objs[t].kind # "none" => objs[t].ptr # objs[s].ptr

\* C11: a copy-constructed or assigned Vector or Matrix has the dimensions
\* and entries of its source and its own backing storage: every operation
\* on one object (a write, a resize, a copy into it, its destruction) leaves
\* the size and entries of every other object unchanged, and assigning an
\* object to itself leaves it unchanged.
C11_DeepCopy ==
  [][ /\ hlast'.op \in {"copy", "assign"} =>
           /\ View(heap', objs'[hlast'.tgt]) = View(heap, objs[hlast'.src])
           /\ View(heap', objs'[hlast'.src]) = View(heap, objs[hlast'.src])
      /\ \A s \in ObjSlots \ {hlast'.tgt} :
           View(heap', objs'[s]) = View(heap, objs[s])
      /\ Unshared'
    ]_vars

\* a Vector of two entries, not all zero, was copy-constructed and the copy
\* equals its source in another buffer
C11_Witness ==
  /\ hlast.op = "copy"
  /\ IsVector(objs[hlast.tgt])
  /\ objs[hlast.tgt].sz = 2
  /\ heap[objs[hlast.tgt].ptr].data[1] = 1
  /\ View(heap, objs[hlast.tgt]) = View(heap, objs[hlast.src])
  /\ objs[hlast.tgt].ptr # objs[hlast.src].ptr

(***************************************************************************)
(* Properties of transpose and multiply (specification SpecProd).          *)
(***************************************************************************)
\* m is a well-formed r x c matrix
HasShape(m, r, c) ==
  /\ Usable(m)
  /\ m.rws = r /\ m.cls = c
  /\ DOMAIN m.el = 0..(r * c - 1)

\* out(j,i) = a(i,j) for all i, j
IsTransposeOf(out, a) ==
  /\ HasShape(out, a.cls, a.rws)
  /\ \A i \in 0..(a.rws - 1) : \A j \in 0..(a.cls - 1) :
       out.el[j * out.cls + i] = a.el[i * a.cls + j]

\* C12: A.transpose(out), out distinct from A, makes out a c x r matrix with
\* out(j,i) = A(i,j) and leaves A unchanged; transposing the result again,
\* into an output of any shape, yields a matrix elementwise equal to A.
C12_Transpose ==
  plast.op = "transpose" =>
    /\ plast.exc = "none"
    /\ IsTransposeOf(ops[3], ops0[1])
    /\ ops[1] = ops0[1] /\ ops[2] = ops0[2]
    /\ \A t \in Outputs :
         LET back == Transpose(<<ops[3], t>>, 1, 2,
                               [x \in 0..(ops[3].rws * ops[3].cls - 1) |-> 0])
         IN  /\ back.exc = "none"
             /\ HasShape(back.ms[2], ops0[1].rws, ops0[1].cls)
             /\ back.ms[2].el = ops0[1].el
             /\ back.ms[1] = ops[3]

\* the 2 x 3 matrix [[1,2,3],[4,5,6]] transposed into an output that was
\* 2 x 3 as well
C12_Witness ==
  /\ plast.op = "transpose"
  /\ ops0[1] = Count(2, 3)
  /\ ops0[3].rws = 2 /\ ops0[3].cls = 3
  /\ ops[3].rws = 3 /\ ops[3].cls = 2
  /\ ops[3].el = Buf(<<1, 4, 2, 5, 3, 6>>)

\* the sum over k in [0,c) of a(i,k)*b(k,j)
ProductEntry(a, b, i, j) ==
  LET sum[k \in 0..a.cls] ==
        IF k = 0 THEN 0
        ELSE sum[k - 1] + a.el[i * a.cls + (k - 1)] * b.el[(k - 1) * b.cls + j]
  IN  sum[a.cls]

\* C13: A.multiply(b, result) with b.rows = A.cols and result distinct from
\* both makes result an r x n matrix with result(i,j) the sum over k of
\* A(i,k)*b(k,j), and leaves A and b unchanged; with b the c x c identity
\* result is elementwise equal to A.
C13_Multiply ==
  (plast.op = "multiply" /\ ops0[2].rws = ops0[1].cls) =>
    /\ plast.exc = "none"
    /\ HasShape(ops[3], ops0[1].rws, ops0[2].cls)
    /\ \A i \in 0..(ops0[1].rws - 1) : \A j \in 0..(ops0[2].cls - 1) :
         ops[3].el[i * ops0[2].cls + j] = ProductEntry(ops0[1], ops0[2], i, j)
    /\ ops[1] = ops0[1] /\ ops[2] = ops0[2]
    /\ ops0[2] = Identity(ops0[1].cls, ops0[1].cls) =>
         /\ ops[3].rws = ops0[1].rws /\ ops[3].cls = ops0[1].cls
         /\ ops[3].el = ops0[1].el

\* [[1,2,3],[4,5,6]] times [[1,2],[3,4],[5,6]] is [[22,28],[49,64]]
C13_Witness ==
  /\ plast.op = "multiply" /\ plast.exc = "none"
  /\ ops0[1] = Count(2, 3)
  /\ ops0[2] = Count(3, 2)
  /\ ops[3].el = Buf(<<22, 28, 49, 64>>)

\* C14: A.multiply(b, result) with b.rows # A.cols raises invalid-argument
\* and leaves the dimensions and entries of result, A and b as they were.
C14_MultiplyRejects ==
  (plast.op = "multiply" /\ ops0[2].rws # ops0[1].cls) =>
    /\ plast.exc = "IllegalArgument"
    /\ ops = ops0

\* a 2 x 3 matrix times a 2 x 2 matrix, with a 3 x 3 result matrix
C14_Witness ==
  /\ plast.op = "multiply" /\ plast.exc = "IllegalArgument"
  /\ ops0[1] = Count(2, 3)
  /\ ops0[2] = Count(2, 2)
  /\ ops[3].rws = 3 /\ ops[3].cls = 3

(***************************************************************************)
(* Properties of Vector indexing (specification SpecVector).               *)
(***************************************************************************)
\* C15: an indexed read or write of a Vector with idx < 0 or idx >= size
\* raises index-out-of-range and leaves the vector unchanged, also for an
\* index in [size, capacity); with idx in [0, size) it does not raise, a
\* read returns entry idx and a write changes entry idx and nothing else.
C15_IndexChecked ==
  [][ vlast'.op \in {"load", "store"} =>
        LET s == vlast'.tgt
            idx == vlast'.newSz
        IN  IF idx < 0 \/ idx >= vecs[s].sz
              THEN /\ vlast'.exc = "IndexOutOfBounds"
                   /\ vecs' = vecs
              ELSE /\ vlast'.exc = "none"
                   /\ vlast'.op = "load" =>
                        /\ vlast'.val = vecs[s].va[idx]
                        /\ vecs' = vecs
                   /\ vlast'.op = "store" =>
                        vecs' = [vecs EXCEPT ![s].va[idx] = vlast'.val]
    ]_vars

\* a read at idx = size of a vector shrunk within its capacity, where the
\* buffer still holds an old non-zero entry, was rejected
C15_Witness ==
  /\ vlast.op = "load"
  /\ vlast.exc = "IndexOutOfBounds"
  /\ vlast.newSz = vecs[vlast.tgt].sz
  /\ vecs[vlast.tgt].sz < vecs[vlast.tgt].cap
  /\ vecs[vlast.tgt].va[vlast.newSz] = 1


(***************************************************************************)
(* Properties of Array (specification SpecArray).                          *)
(***************************************************************************)
\* the elements of the array: the first size() slots of the block
Elems(a) == SubSeq(a.lst, 1, a.lstSz)

\* C18: set(idx, item) raises IndexOutOfBoundsException and leaves the array
\* unchanged whenever idx < 0 or idx >= size(), and replaces an element only
\* for idx in [0, size()).
C18_SetChecked ==
  [][alast'.op = "set" =>
       IF alast'.idx < 0 \/ alast'.idx >= arr.lstSz
         THEN alast'.exc = "IndexOutOfBounds" /\ arr' = arr
       ELSE /\ alast'.exc = "none"
            /\ arr' = [arr EXCEPT !.lst[alast'.idx + 1] = alast'.item]]_vars

\* C19: shrinkCapacity(reserveCap) sets the capacity to size() + reserveCap
\* for every reserveCap >= 0 with size() + reserveCap <= cap(), is a no-op
\* when size() + reserveCap > cap(), and never changes the size or the
\* elements.
C19_ShrinkCapacity ==
  [][alast'.op = "shrink" /\ alast'.idx >= 0 =>
       /\ arr'.lstSz = arr.lstSz
       /\ Elems(arr') = Elems(arr)
       /\ IF arr.lstSz + alast'.idx <= arr.lstCap
            THEN arr'.lstCap = arr.lstSz + alast'.idx
          ELSE arr' = arr]_vars


(***************************************************************************)
(* Properties of UniFile's search (specification SpecFind).                *)
(***************************************************************************)
\* the findNext method that continues a search of kind
NextOf(kind) ==
  CASE kind = "FindDirs"  -> "findNextDir"
    [] kind = "FindFiles" -> "findNextFile"
    [] kind = "FindAll"   -> "findNext"
    [] OTHER              -> "no method"

\* the caller's last findFirst call was of kind, returned true, and the
\* search has since been neither exhausted nor cancelled
InProgress(kind) == hist.kind = kind /\ hist.ret /\ ~hist.ended

\* C20: findNextDir, findNextFile or findNext returns true only if the most
\* recent find started on the object was the matching findFirst call, that
\* call returned true and the search has since been neither exhausted nor
\* cancelled; when such a call returns false on exhaustion the handle is
\* closed, the filter cleared and the mode reset, and every later findNext
\* call returns false until a findFirst call succeeds.
C20_FindNext ==
  [][\A kind \in FindModes :
       ulast'.op = NextOf(kind) =>
         /\ ulast'.ret => InProgress(kind)
         /\ InProgress(kind) /\ ~ulast'.ret =>
              /\ uf.fndHdl \notin fnd'.open
              /\ uf' = NoFind
              /\ hist'.ended
         /\ hist.ended => ~ulast'.ret /\ hist'.ended]_vars

\* a search for directories that returned two results and was then found
\* exhausted by findNextDir
C20_Witness ==
  /\ ulast.op = "findNextDir"
  /\ ~ulast.ret
  /\ hist.kind = "FindDirs"
  /\ hist.ret
  /\ hist.hits >= 2
  /\ hist.ended


(***************************************************************************)
(* Properties of UniFile's path methods (specification SpecExe).           *)
(***************************************************************************)
\* the directory holding the file at the absolute path q
ParentDir(q) == [abs |-> TRUE, comps |-> Front(q.comps)]

\* C21: whenever getExeDir returns true, exeDir holds the parent directory
\* of the running executable's path; whenever it returns false, exeDir is
\* left unmodified.
C21_GetExeDir ==
  elast.op = "getExeDir" =>
    IF elast.ret THEN exeDir = ParentDir(elast.exe)
    ELSE exeDir = elast.pre


(***************************************************************************)
(* Properties of the lower bounds of solveLDLT (specification Spec).       *)
(***************************************************************************)
\* the elimination with lwbIdx[] held at its initial value: the multiplier
\* of row i for column j is completed from row max(lwb[i], lwb[j]) on and
\* stored, and no lower bound is advanced
RECURSIVE HeldOffDiagLoop(_, _, _, _, _, _)
HeldOffDiagLoop(st, cls, i, j, upb, dd) ==
  IF j >= upb THEN st
  ELSE LET start == Max(st.lwb[i], st.lwb[j])
           m == Div(MultLoop(st, cls, i, j, start, st.el[i * cls + (j - i)]), dd)
       IN  HeldOffDiagLoop([st EXCEPT !.el[i * cls + (j - i)] = m],
                           cls, i, j + 1, upb, dd)

RECURSIVE HeldEliminate(_, _, _, _)
HeldEliminate(st, rws, cls, i) ==
  IF i >= rws THEN st
  ELSE LET d == DiagLoop(st, cls, i, st.lwb[i], st.el[i * cls])
           st1 == [d.st EXCEPT !.el[i * cls] = d.dd]
       IN  HeldEliminate(
             HeldOffDiagLoop(st1, cls, i, i + 1, Min(i + cls, rws), d.dd),
             rws, cls, i + 1)

HeldFactorize(m) ==
  HeldEliminate([el |-> m.el, lwb |-> InitLwb(m.rws, m.cls),
                 r |-> [i \in 0..(m.rws - 1) |-> Uninit]],
                m.rws, m.cls, 0)

\* the solution the held elimination leaves in the vector v
HeldSolution(m, v) ==
  LET st == HeldFactorize(m)
      fw == Forward(v.va, st, m.rws, m.cls, 0)
      sc == Scale(fw, st.el, m.rws, m.cls, 0)
  IN  Back(sc, st.el, m.rws, m.cls, m.rws - 1)

\* every multiplier the call stored that is below the threshold is zero
TinyIsZero(m) ==
  \A p \in BandIdx(m.rws, m.cls) :
    Negligible(m.el[p[1] * m.cls + p[2]]) => m.el[p[1] * m.cls + p[2]] = Q(0)

\* C22: when every multiplier of magnitude below 1e-12 is exactly zero, the
\* factors left in the matrix and the solution left in rhs by solveLDLT
\* equal those of the same elimination run with every lwb[i] held at its
\* initial value max(0, i-cols+1).
C22_SkippingKeepsResult ==
  SolvedVector /\ TinyIsZero(A) =>
    /\ A.el = HeldFactorize(A0).el
    /\ rhs.v.va = HeldSolution(A0, rhs0.v)

\* a call in which a lower bound was advanced past a zero multiplier
C22_Witness ==
  /\ SolvedVector
  /\ TinyIsZero(A)
  /\ A.rws = MaxRows
  /\ Factorize(A0).lwb # InitLwb(A0.rws, A0.cls)
  /\ AllFinite(rhs.v.va)


(***************************************************************************)
(* solveLDLT step by step (specification SpecFactor)                       *)
(***************************************************************************)
\* |m| < 1e-12 for m = n/d
BelowThreshold(m) ==
  /\ IsFinite(m)
  /\ Abs(m[1]) * EpsDenRoot < (m[2] + EpsDenRoot - 1) \div EpsDenRoot

\* a step of the off-diagonal loop of row fs.i, on column fs.j
OffDiagStep == fs.pc = "off" /\ fs'.pc = "off" /\ fs'.j = fs.j + 1

\* every multiplier of column j in rows [max(0, j-cols+1), lwb[j]) is below
\* the threshold
SkippedAreTiny(f) ==
  \A j \in 0..(f.rws - 1) :
    \A k \in Max(0, j - f.cls + 1)..(f.lwb[j] - 1) :
      BelowThreshold(f.el[k * f.cls + (j - k)])

\* C23: during the elimination of row i, for each j with
\* i < j < min(i+cols, rows), lwb[j] becomes i+1 exactly when the multiplier
\* just stored at band slot (i, j-i) is below 1e-12 in magnitude and lwb[j]
\* equals i, and is left unchanged in every other case; when the
\* factorization completes, every multiplier in rows
\* [max(0, j-cols+1), lwb[j]) of column j is below the threshold.
C23_LwbAdvance ==
  [][/\ OffDiagStep =>
          /\ fs.i < fs.j
          /\ fs.j < Min(fs.i + fs.cls, fs.rws)
          /\ fs'.lwb[fs.j] =
               IF BelowThreshold(fs'.el[fs.i * fs.cls + (fs.j - fs.i)])
                  /\ fs.lwb[fs.j] = fs.i
                 THEN fs.i + 1 ELSE fs.lwb[fs.j]
          /\ \A k \in 0..(fs.rws - 1) : k # fs.j => fs'.lwb[k] = fs.lwb[k]
     /\ fs.pc = "off" /\ fs'.pc = "forward" => SkippedAreTiny(fs')]_vars

\* a column whose lower bound was advanced in one row and, its next
\* multiplier being zero too late, left alone after that
C23_Witness ==
  /\ fs.pc = "done"
  /\ fs.rws = MaxFacRows
  /\ fs.cls = MaxFacRows
  /\ fs.lwb[3] = 1
  /\ fs.lwb[2] = 0
  /\ fs.el[1 * fs.cls + 1] = Q(0)

InRange(x, f) ==
  CASE x.arr = "mat" -> 0 <= x.a /\ x.a < f.rws /\ 0 <= x.b /\ x.b < f.cls
    [] x.arr \in {"lwb", "r"} -> 0 <= x.a /\ x.a < f.rws
    [] x.arr = "rhs" -> 0 <= x.a /\ x.a < f.rhsRws /\ 0 <= x.b /\ x.b < f.n

\* C24: for a matrix with rows >= cols >= 1 and a conforming right-hand
\* side, every access of either solveLDLT overload is in range: mat[a][b]
\* has 0 <= a < rows and 0 <= b < cols, every lwb and r index lies in
\* [0, rows), every right-hand-side access lies inside the right-hand side.
C24_AccessesInRange ==
  fs.rws >= fs.cls /\ fs.cls >= 1 /\ fs.rhsRws = fs.rws =>
    \A x \in fg.acc : InRange(x, fs)

\* the back substitution of the Matrix overload on a band narrower than
\* the matrix
C24_Witness ==
  /\ fs.pc = "done"
  /\ fs.which = "matrix"
  /\ fs.rws = MaxFacRows
  /\ fs.cls = 2
  /\ Mat(2, 1) \in fg.acc
  /\ [arr |-> "rhs", a |-> 3, b |-> 1] \in fg.acc

\* C25: every r[k] read while the off-diagonal multipliers of row i are
\* computed was written by the diagonal step of that same row i, with the
\* value D[k] * L[k][i-k].
C25_CacheFresh ==
  \A rd \in fg.reads :
    /\ rd.row = fs.i
    /\ rd.val = Mul(fs.el[rd.k * fs.cls], fs.el[rd.k * fs.cls + (fs.i - rd.k)])

\* row 2 reads r[0] and r[1], which row 1 had written before
C25_Witness ==
  /\ fs.pc = "off"
  /\ fs.i = 2
  /\ {rd.k : rd \in fg.reads} = {0, 1}
  /\ \A rd \in fg.reads : IsFinite(rd.val)

LwbWithin(f) ==
  \A j \in 0..(f.rws - 1) :
    Max(0, j - f.cls + 1) <= f.lwb[j] /\ f.lwb[j] <= j

\* C26: in every state of the factorization loop, each lwb[j] lies in
\* [max(0, j-cols+1), j], never decreases, and changes only during the
\* iteration i = lwb[j], by exactly one.
C26_LwbBounds ==
  [][fs.pc \in {"diag", "off"} =>
       /\ LwbWithin(fs)
       /\ LwbWithin(fs')
       /\ \A j \in 0..(fs.rws - 1) :
            /\ fs'.lwb[j] >= fs.lwb[j]
            /\ fs'.lwb[j] # fs.lwb[j] =>
                 fs.lwb[j] = fs.i /\ fs'.lwb[j] = fs.lwb[j] + 1]_vars

\* the last column of a full matrix, advanced in every row down to its
\* diagonal
C26_Witness ==
  /\ fs.pc = "forward"
  /\ fs.cls = MaxFacRows
  /\ fs.lwb[MaxFacRows - 1] = MaxFacRows - 1


(***************************************************************************)
(* The capacity of an Array (specification SpecArray)                      *)
(***************************************************************************)
\* C27: after any sequence of Array operations size() <= cap() holds and
\* every stored element lies inside the allocated block; whenever insert
\* finds size() >= cap() the capacity has grown to more than the old size()
\* before the element is stored, so no insert or add writes past the block.
C27_WithinCapacity ==
  /\ arr.lstSz <= arr.lstCap
  /\ Len(arr.lst) = arr.lstCap
  /\ alast.op \in {"add", "insert"} => alast.exc \notin {"overrun", "crash"}


(***************************************************************************)
(* transpose and multiply with the output aliasing an operand              *)
(* (specification SpecProd)                                                *)
(***************************************************************************)
\* out is the product of a and b
IsProductOf(out, a, b) ==
  /\ HasShape(out, a.rws, b.cls)
  /\ \A i \in 0..(a.rws - 1) : \A j \in 0..(b.cls - 1) :
       out.el[i * b.cls + j] = ProductEntry(a, b, i, j)

\* C28: A.transpose(A) leaves A holding the transpose of its prior value;
\* A.multiply(b, A) and A.multiply(b, b), with b.rows = A.cols, leave the
\* output holding the product of the prior values of A and b, as when the
\* output is a distinct matrix.
C28_AliasedOutput ==
  /\ plast.op = "transposeSelf" => IsTransposeOf(ops[1], ops0[1])
  /\ plast.op = "multiplyIntoA" /\ ops0[2].rws = ops0[1].cls =>
       IsProductOf(ops[1], ops0[1], ops0[2])
  /\ plast.op = "multiplyIntoB" /\ ops0[2].rws = ops0[1].cls =>
       IsProductOf(ops[2], ops0[1], ops0[2])

=============================================================================
